---- MODULE Spec2Model ----
(***************************************************************************)
(* A model of go-systemd-time (package systemdtime): ParseTimespan and     *)
(* ParseTimestamp with their scanning primitives and sub-parsers.          *)
(*                                                                         *)
(* A Go string is a sequence of bytes; a byte is written as a one-letter   *)
(* string ("5", "h", " "), and the four bytes of the two micro signs as    *)
(* "xC2" "xB5" (U+00B5) and "xCE" "xBC" (U+03BC).                          *)
(*                                                                         *)
(* Go's int and time.Duration are 64-bit two's-complement integers.  They  *)
(* are modelled as sequences of 8 bytes, least significant first, with     *)
(* wrap-around arithmetic, because the model checker's own integers are    *)
(* 32 bits wide.                                                           *)
(***************************************************************************)
EXTENDS Integers, Sequences, FiniteSets, TLC

VARIABLES
    input,      \* the string handed to the last call
    shape,      \* how the caller composed input (the pieces it was built of)
    ref,        \* the reference instant handed to ParseTimestamp
    op,         \* the operation called last: "none", "ParseTimespan", "ParseTimestamp"
    ret         \* what the last call returned

vars == <<input, shape, ref, op, ret>>

-----------------------------------------------------------------------------
(* 64-bit integers *)

\* the width of a Go int / time.Duration in bytes (GOARCH amd64, arm64)
WordBytes == 8

RECURSIVE NatMulAdd(_, _, _)
\* n * k + c for a natural number n given as bytes, least significant first
NatMulAdd(n, k, c) ==
    IF n = <<>>
    THEN IF c = 0 THEN <<>> ELSE <<c % 256>> \o NatMulAdd(<<>>, k, c \div 256)
    ELSE LET v == Head(n) * k + c
         IN  <<v % 256>> \o NatMulAdd(Tail(n), k, v \div 256)

RECURSIVE NatAdd(_, _, _)
\* a + b + c for natural numbers a, b given as bytes
NatAdd(a, b, c) ==
    IF a = <<>> /\ b = <<>>
    THEN IF c = 0 THEN <<>> ELSE <<c>>
    ELSE LET x == IF a = <<>> THEN 0 ELSE Head(a)
             y == IF b = <<>> THEN 0 ELSE Head(b)
             v == x + y + c
         IN  <<v % 256>> \o NatAdd(IF a = <<>> THEN <<>> ELSE Tail(a),
                                   IF b = <<>> THEN <<>> ELSE Tail(b),
                                   v \div 256)

\* the low 64 bits of a natural number: what a Go int64 keeps of it
Wrap64(n) == [i \in 1..WordBytes |-> IF i <= Len(n) THEN n[i] ELSE 0]

RECURSIVE NatOfInt(_)
NatOfInt(k) == IF k = 0 THEN <<>> ELSE <<k % 256>> \o NatOfInt(k \div 256)

\* the int64 of a small natural number
I64(k) == Wrap64(NatOfInt(k))

Zero64 == I64(0)

IsNeg64(a) == a[WordBytes] >= 128

Add64(a, b) == Wrap64(NatAdd(a, b, 0))

Neg64(a) == Wrap64(NatAdd([i \in 1..WordBytes |-> 255 - a[i]], <<>>, 1))

Sub64(a, b) == Add64(a, Neg64(b))

RECURSIVE MulAcc(_, _, _)
\* a * b, adding a * b[i] * 256^(i-1) for each byte of b
MulAcc(a, b, i) ==
    IF i > WordBytes THEN <<>>
    ELSE IF b[i] = 0 THEN MulAcc(a, b, i + 1)
    ELSE NatAdd([j \in 1..(i - 1) |-> 0] \o NatMulAdd(a, b[i], 0),
                MulAcc(a, b, i + 1), 0)

Mul64(a, b) == Wrap64(MulAcc(a, b, 1))

RECURSIVE DivStep(_, _, _, _)
\* <<quotient bytes, remainder>> of the natural number n divided by the small
\* number k, taking the bytes of n from the most significant one down
DivStep(n, k, i, r) ==
    IF i = 0 THEN <<<<>>, r>>
    ELSE LET v    == r * 256 + n[i]
             rest == DivStep(n, k, i - 1, v % k)
         IN  <<Append(rest[1], v \div k), rest[2]>>

\* Go's a / k and a % k (truncated towards zero) for a small positive k
Quo64(a, k) ==
    IF IsNeg64(a)
    THEN Neg64(Wrap64(DivStep(Neg64(a), k, WordBytes, 0)[1]))
    ELSE Wrap64(DivStep(a, k, WordBytes, 0)[1])

Rem64(a, k) ==
    IF IsNeg64(a)
    THEN 0 - DivStep(Neg64(a), k, WordBytes, 0)[2]
    ELSE DivStep(a, k, WordBytes, 0)[2]

\* signed comparison a < b
Less64(a, b) ==
    LET key(x) == [i \in 1..WordBytes |->
                     IF i = WordBytes THEN (x[i] + 128) % 256 ELSE x[i]]
        ka == key(a)
        kb == key(b)
    IN  \E i \in 1..WordBytes :
            /\ ka[i] < kb[i]
            /\ \A j \in (i + 1)..WordBytes : ka[j] = kb[j]

\* the value of a as a model integer when it is in 0..2^31-2, else 2^31-1:
\* enough to compare a parsed number with the small limits of the code
Small(a) ==
    IF (\A i \in 5..WordBytes : a[i] = 0) /\ a[4] < 128
    THEN a[1] + 256 * a[2] + 65536 * a[3] + 16777216 * a[4]
    ELSE 2147483647

\* a / 10^9 and a % 10^9 as Go computes them, in three steps of 1000
QuoE9(a) == Quo64(Quo64(Quo64(a, 1000), 1000), 1000)

RemE9(a) ==
    Rem64(a, 1000) + 1000 * Rem64(Quo64(a, 1000), 1000)
        + 1000000 * Rem64(Quo64(Quo64(a, 1000), 1000), 1000)

-----------------------------------------------------------------------------
(* Strings and errors *)

Digits == {"0", "1", "2", "3", "4", "5", "6", "7", "8", "9"}

IsDigit(c) == c \in Digits

DigitVal(c) ==
    CASE c = "0" -> 0 [] c = "1" -> 1 [] c = "2" -> 2 [] c = "3" -> 3
      [] c = "4" -> 4 [] c = "5" -> 5 [] c = "6" -> 6 [] c = "7" -> 7
      [] c = "8" -> 8 [] c = "9" -> 9

\* s[i] of Go: positions count from 0
At(s, i) == s[i + 1]

\* s[from:to] of Go
Slice(s, from, to) == [k \in 1..(to - from) |-> s[from + k]]

\* the nil error
Nil == "nil"

-----------------------------------------------------------------------------
(* Unit constants *)

Nanosecond  == I64(1)
Microsecond == Mul64(I64(1000), Nanosecond)
Millisecond == Mul64(I64(1000), Microsecond)
Second      == Mul64(I64(1000), Millisecond)
Minute      == Mul64(I64(60), Second)
Hour        == Mul64(I64(60), Minute)
Day         == Mul64(I64(24), Hour)
Week        == Mul64(I64(7), Day)
\* time.Duration(365.25 * float64(Day)): the constant product is exact
Year        == Add64(Mul64(I64(365), Day), Quo64(Day, 4))
Month       == Quo64(Year, 12)

-----------------------------------------------------------------------------
(* Scanning primitives *)

RECURSIVE DigitsEnd(_, _)
\* for i < len(s) && s[i] >= '0' && s[i] <= '9' { i++ }
DigitsEnd(s, i) ==
    IF i < Len(s) /\ IsDigit(At(s, i)) THEN DigitsEnd(s, i + 1) ELSE i

RECURSIVE SpacesEnd(_, _)
\* for i < len(s) && s[i] == ' ' { i++ }
SpacesEnd(s, i) ==
    IF i < Len(s) /\ At(s, i) = " " THEN SpacesEnd(s, i + 1) ELSE i

RECURSIVE WordEndAtPoint(_, _)
\* the word loop stopping at a decimal point as well
WordEndAtPoint(s, i) ==
    IF i < Len(s) /\ At(s, i) # " " /\ At(s, i) # "." /\ ~IsDigit(At(s, i))
    THEN WordEndAtPoint(s, i + 1) ELSE i

RECURSIVE WordEnd(_, _)
\* for i < len(s) && s[i] != ' ' && (s[i] < '0' || s[i] > '9') { i++ }
WordEnd(s, i) ==
    IF i < Len(s) /\ At(s, i) # " " /\ ~IsDigit(At(s, i))
    THEN WordEnd(s, i + 1) ELSE i

RECURSIVE NatOfDigits(_, _)
\* the natural number a digit string spells, as bytes
NatOfDigits(ds, acc) ==
    IF ds = <<>> THEN acc
    ELSE NatOfDigits(Tail(ds), NatMulAdd(acc, 10, DigitVal(Head(ds))))

\* strconv.Atoi of a non-empty digit string: the value, or a range error when
\* it is above the largest int
Atoi(ds) ==
    LET n == NatOfDigits(ds, <<>>)
    IN  IF Len(n) > WordBytes \/ (Len(n) = WordBytes /\ n[WordBytes] >= 128)
        THEN [n |-> Zero64, err |-> "value out of range"]
        ELSE [n |-> Wrap64(n), err |-> Nil]

readNum(s, pos) ==
    LET i == DigitsEnd(s, pos)
        a == Atoi(Slice(s, pos, i))
    IN  IF i = pos
        THEN [n |-> Zero64, pos |-> pos, err |-> "expected number in %q"]
        ELSE IF a.err # Nil
        THEN [n |-> Zero64, pos |-> pos, err |-> "expected number, got %q in %q: %w"]
        ELSE [n |-> a.n, pos |-> i, err |-> Nil]

\* the digits of a fraction taken as a number of nanoseconds as they stand
PadFracNone(n, j) == n

RECURSIVE PadFrac(_, _)
\* for j := len(frac); j < 9; j++ { n *= 10 }
PadFrac(n, j) == IF j < 9 THEN PadFrac(n * 10, j + 1) ELSE n

readFrac(s, pos) ==
    LET i    == DigitsEnd(s, pos)
        frac == IF i - pos > 9 THEN Slice(s, pos, pos + 9) ELSE Slice(s, pos, i)
    IN  IF i = pos
        THEN [n |-> 0, pos |-> pos, err |-> "expected number in %q"]
        ELSE [n |-> PadFrac(Small(Atoi(frac).n), Len(frac)), pos |-> i, err |-> Nil]

\* the word known by its first letter
readWordFirstLetter(s, pos) ==
    [word |-> IF WordEnd(s, pos) > pos THEN <<At(s, pos)>> ELSE <<>>,
     pos |-> WordEnd(s, pos)]

readWord(s, pos) ==
    LET i == WordEnd(s, pos)
    IN  [word |-> Slice(s, pos, i), pos |-> i]

-----------------------------------------------------------------------------
(* ParseTimespan *)

\* the unit chosen by the first letter of the word, m being the minute
UnitOfFirstLetter(w) ==
    CASE Head(w) = "n" -> Nanosecond
      [] Head(w) \in {"u", "xC2", "xCE"} -> Microsecond
      [] Head(w) = "s" -> Second
      [] Head(w) = "m" -> Minute
      [] Head(w) = "h" -> Hour
      [] Head(w) = "d" -> Day
      [] Head(w) = "w" -> Week
      [] Head(w) = "M" -> Month
      [] Head(w) = "y" -> Year
      [] OTHER -> <<>>

\* the unit a word names in the switch of ParseTimespan, or <<>> when the
\* word is no case of the switch
UnitOf(w) ==
    CASE w \in {<<"n", "s">>, <<"n", "s", "e", "c">>} -> Nanosecond
      [] w \in {<<"u", "s">>, <<"xC2", "xB5", "s">>, <<"xCE", "xBC", "s">>,
                <<"u", "s", "e", "c">>} -> Microsecond
      [] w \in {<<"m", "s">>, <<"m", "s", "e", "c">>} -> Millisecond
      [] w \in {<<"s">>, <<"s", "e", "c">>, <<"s", "e", "c", "o", "n", "d">>,
                <<"s", "e", "c", "o", "n", "d", "s">>} -> Second
      [] w \in {<<"m">>, <<"m", "i", "n">>, <<"m", "i", "n", "u", "t", "e">>,
                <<"m", "i", "n", "u", "t", "e", "s">>} -> Minute
      [] w \in {<<"h">>, <<"h", "r">>, <<"h", "o", "u", "r">>,
                <<"h", "o", "u", "r", "s">>} -> Hour
      [] w \in {<<"d">>, <<"d", "a", "y">>, <<"d", "a", "y", "s">>} -> Day
      [] w \in {<<"w">>, <<"w", "e", "e", "k">>, <<"w", "e", "e", "k", "s">>} -> Week
      [] w \in {<<"M">>, <<"m", "o", "n", "t", "h">>,
                <<"m", "o", "n", "t", "h", "s">>} -> Month
      [] w \in {<<"y">>, <<"y", "e", "a", "r">>, <<"y", "e", "a", "r", "s">>} -> Year
      [] OTHER -> <<>>

\* the accumulation with "d =" written for "d +=": the groups before are lost
AccumulateAssign(d, num, nsec, unit) ==
    LET whole == Mul64(num, unit)
    IN  IF nsec > 0
        THEN IF ~Less64(unit, Second)
             THEN Add64(whole, Mul64(I64(nsec), QuoE9(unit)))
             ELSE Add64(whole, I64(nsec \div Small(Quo64(Second, Small(unit)))))
        ELSE whole

\* d += time.Duration(num) * unit, and the fraction scaled by the same unit
Accumulate(d, num, nsec, unit) ==
    LET whole == Add64(d, Mul64(num, unit))
    IN  IF nsec > 0
        THEN IF ~Less64(unit, Second)
             THEN Add64(whole, Mul64(I64(nsec), QuoE9(unit)))
             ELSE Add64(whole, I64(nsec \div Small(Quo64(Second, Small(unit)))))
        ELSE whole

RECURSIVE SpanLoop(_, _, _, _)
\* the group loop of ParseTimespan from cursor i, with d accumulated so far
SpanLoop(s, i, d, foundAny) ==
    LET i1   == SpacesEnd(s, i)
        done == IF foundAny
                THEN [d |-> d, err |-> Nil]
                ELSE [d |-> Zero64, err |-> "expected time span, got %q"]
    IN  IF ~(i < Len(s)) \/ i1 >= Len(s) THEN done
        ELSE
        LET c  == At(s, i1)
            rn == IF IsDigit(c) THEN readNum(s, i1)
                  ELSE [n |-> Zero64, pos |-> i1, err |-> Nil]
        IN  IF rn.err # Nil THEN [d |-> Zero64, err |-> rn.err]
            ELSE IF ~IsDigit(c) /\ c # "."
            THEN [d |-> Zero64, err |-> "expected number, got %q in %q"]
            ELSE
            LET rf == IF rn.pos < Len(s) /\ At(s, rn.pos) = "."
                      THEN readFrac(s, rn.pos + 1)
                      ELSE [n |-> 0, pos |-> rn.pos, err |-> Nil]
            IN  IF rf.err # Nil THEN [d |-> Zero64, err |-> rf.err]
                ELSE
                LET w    == readWord(s, SpacesEnd(s, rf.pos))
                    unit == IF w.word = <<>> THEN Second ELSE UnitOf(w.word)
                IN  IF unit = <<>>
                    THEN [d |-> Zero64, err |-> "expected unit, got %q in %q"]
                    ELSE SpanLoop(s, w.pos, Accumulate(d, rn.n, rf.n, unit), TRUE)

\* an input of nothing but spaces, or of nothing, taken as the zero duration
ParseTimespanBlankIsZero(s) ==
    IF SpacesEnd(s, 0) = Len(s) THEN [d |-> Zero64, err |-> Nil]
    ELSE SpanLoop(s, 0, Zero64, FALSE)

ParseTimespan(s) ==
    IF s = <<>> THEN [d |-> Zero64, err |-> "expected time span, got empty string"]
    ELSE IF s = <<"0">> THEN [d |-> Zero64, err |-> Nil]
    ELSE SpanLoop(s, 0, Zero64, FALSE)

-----------------------------------------------------------------------------
(* Instants, locations and the calendar of package time *)

\* an assignment: the value v, computed once, and the rest of the function
Then(v, Rest(_)) == Rest(v)

\* a model integer as an int64
S64(k) == IF k < 0 THEN Neg64(I64(0 - k)) ELSE I64(k)

\* an int64 as a model integer, when it is within -(2^31-2)..2^31-2
ToInt(a) == IF IsNeg64(a) THEN 0 - Small(Neg64(a)) ELSE Small(a)

\* the quotient rounded down, and the remainder that goes with it
FloorQuo64(a, k) ==
    IF IsNeg64(a) /\ Rem64(a, k) # 0 THEN Sub64(Quo64(a, k), I64(1)) ELSE Quo64(a, k)

FloorRem64(a, k) ==
    IF Rem64(a, k) < 0 THEN Rem64(a, k) + k ELSE Rem64(a, k)

\* a location is a name and a fixed offset in seconds east of UTC
UTC == [name |-> <<"U", "T", "C">>, offset |-> 0]

\* a zone that lies west by what it should lie east
FixedZoneWest(offset) == [name |-> <<>>, offset |-> 0 - offset]

FixedZone(offset) == [name |-> <<>>, offset |-> offset]

\* the entries of the timezone database that the model knows, both without
\* daylight saving time
TzDatabase ==
    {[name |-> <<"U", "T", "C">>, offset |-> 0],
     [name |-> <<"E", "S", "T">>, offset |-> 0 - 18000],
     [name |-> <<"A", "s", "i", "a", "/", "T", "o", "k", "y", "o">>, offset |-> 32400]}

\* time.LoadLocation: the location of that name, or an error
LoadLocation(name) ==
    IF \E z \in TzDatabase : z.name = name
    THEN [loc |-> CHOOSE z \in TzDatabase : z.name = name, err |-> Nil]
    ELSE [loc |-> UTC, err |-> "unknown time zone"]

\* the days from 1970-01-01 to the first day of month m of year y, plus d - 1:
\* a day beyond the end of the month runs on into the next one, as in time.Date
DaysFromCivil(y, m, d) ==
    LET yy  == IF m <= 2 THEN y - 1 ELSE y
        era == yy \div 400
        yoe == yy - era * 400
        mp  == IF m > 2 THEN m - 3 ELSE m + 9
        doy == (153 * mp + 2) \div 5 + d - 1
        doe == yoe * 365 + yoe \div 4 - yoe \div 100 + doy
    IN  era * 146097 + doe - 719468

\* the year, month and day of the day z days after 1970-01-01
CivilFromDays(z) ==
    LET zz  == z + 719468
        era == zz \div 146097
        doe == zz - era * 146097
        yoe == (doe - doe \div 1460 + doe \div 36524 - doe \div 146096) \div 365
        doy == doe - (365 * yoe + yoe \div 4 - yoe \div 100)
        mp  == (5 * doy + 2) \div 153
        m   == IF mp < 10 THEN mp + 3 ELSE mp - 9
    IN  [year  |-> yoe + era * 400 + (IF m <= 2 THEN 1 ELSE 0),
         month |-> m,
         day   |-> doy - (153 * mp + 2) \div 5 + 1]

\* time.Date: the instant of the civil time in loc; sec counts the seconds
\* since 1970-01-01T00:00:00Z
Date(year, month, day, hour, minute, second, nsec, loc) ==
    [sec  |-> Add64(Mul64(S64(DaysFromCivil(year, month, day)), I64(86400)),
                    S64(hour * 3600 + minute * 60 + second - loc.offset)),
     nsec |-> nsec,
     loc  |-> loc]

\* time.Time{}: January 1, year 1, 00:00:00 UTC
ZeroTime == Date(1, 1, 1, 0, 0, 0, 0, UTC)

\* the instant left in the location it had
InUnmoved(t, loc) == t

\* t.In(loc)
In(t, loc) == [t EXCEPT !.loc = loc]

\* the day of t in its location, in days since 1970-01-01
LocalDay(t) == ToInt(FloorQuo64(Add64(t.sec, S64(t.loc.offset)), 86400))

\* the date of t read in UTC, whatever its location
DateOfInUTC(t) == CivilFromDays(ToInt(FloorQuo64(t.sec, 86400)))

\* t.Date(): year, month and day of t in its location
DateOf(t) == CivilFromDays(LocalDay(t))

\* t.Weekday(): 0 is Sunday; 1970-01-01 was a Thursday
Weekday(t) == (LocalDay(t) + 4) % 7

\* t.Add(d)
TimeAdd(t, d) ==
    Then(Add64(t.sec, QuoE9(d)), LAMBDA sec :
    Then(t.nsec + RemE9(d), LAMBDA n :
        IF n >= 1000000000
        THEN [t EXCEPT !.sec = Add64(sec, I64(1)), !.nsec = n - 1000000000]
        ELSE IF n < 0
        THEN [t EXCEPT !.sec = Sub64(sec, I64(1)), !.nsec = n + 1000000000]
        ELSE [t EXCEPT !.sec = sec, !.nsec = n]))

\* the instant of the whole seconds alone
UnixWholeSeconds(sec, nsec) == [sec |-> sec, nsec |-> 0, loc |-> UTC]

\* time.Unix(sec, nsec) for 0 <= nsec < 1e9; the local zone is taken to be UTC
Unix(sec, nsec) == [sec |-> sec, nsec |-> nsec, loc |-> UTC]

-----------------------------------------------------------------------------
(* The sub-parsers of ParseTimestamp *)

UpperLetters ==
    <<"A", "B", "C", "D", "E", "F", "G", "H", "I", "J", "K", "L", "M",
      "N", "O", "P", "Q", "R", "S", "T", "U", "V", "W", "X", "Y", "Z">>

LowerLetters ==
    <<"a", "b", "c", "d", "e", "f", "g", "h", "i", "j", "k", "l", "m",
      "n", "o", "p", "q", "r", "s", "t", "u", "v", "w", "x", "y", "z">>

\* (c >= 'a' && c <= 'z') || (c >= 'A' && c <= 'Z')
IsLetter(c) == \E k \in 1..26 : c = UpperLetters[k] \/ c = LowerLetters[k]

\* strings.ToLower, on ASCII
ToLower(w) ==
    [k \in 1..Len(w) |->
        IF \E j \in 1..26 : w[k] = UpperLetters[j]
        THEN LowerLetters[CHOOSE j \in 1..26 : w[k] = UpperLetters[j]]
        ELSE w[k]]

\* a pivot that leaves 68 in the last century
TwoDigitYearBelow68(year) == IF year < 68 THEN year + 2000 ELSE year + 1900

\* 0-68 is 2000-2068, 69-99 is 1969-1999
TwoDigitYear(year) == IF year <= 68 THEN year + 2000 ELSE year + 1900

\* an error value of handleDate that has moved on by one character
DateErrAdvanced(pos, e) ==
    [year |-> 0, month |-> 0, day |-> 0, pos |-> pos + 1, fullYear |-> FALSE, err |-> e]

\* the error value of handleDate
DateErr(pos, e) ==
    [year |-> 0, month |-> 0, day |-> 0, pos |-> pos, fullYear |-> FALSE, err |-> e]

handleDate(s, pos) ==
    LET bad == "expected date (YYYY-MM-DD or YY-MM-DD), got %q"
    IN  IF pos >= Len(s) THEN DateErr(pos, bad)
        ELSE
        Then(readNum(s, pos), LAMBDA ry :
        IF ry.err # Nil THEN DateErr(pos, ry.err)
        ELSE IF ry.pos >= Len(s) \/ At(s, ry.pos) # "-" THEN DateErr(pos, bad)
        ELSE
        Then(readNum(s, ry.pos + 1), LAMBDA rm :
        IF rm.err # Nil THEN DateErr(pos, rm.err)
        ELSE IF Small(rm.n) < 1 \/ Small(rm.n) > 12
        THEN DateErr(pos, "expected month in range 1-12, got %d in %q")
        ELSE IF rm.pos >= Len(s) \/ At(s, rm.pos) # "-" THEN DateErr(pos, bad)
        ELSE
        Then(readNum(s, rm.pos + 1), LAMBDA rd :
        IF rd.err # Nil THEN DateErr(pos, rd.err)
        ELSE IF Small(rd.n) < 1 \/ Small(rd.n) > 31
        THEN DateErr(pos, "expected day in range 1-31, got %d in %q")
        ELSE [year     |-> IF Small(ry.n) >= 100 THEN Small(ry.n)
                           ELSE TwoDigitYear(Small(ry.n)),
              month    |-> Small(rm.n),
              day      |-> Small(rd.n),
              pos      |-> rd.pos,
              fullYear |-> Small(ry.n) >= 100,
              err      |-> Nil])))

\* a time whose field is out of range taken as no time at all
TimeErrIgnored(pos, e) ==
    [hour |-> 0, minute |-> 0, second |-> 0, nsec |-> 0, pos |-> pos, err |-> Nil]

\* the error value of handleTime
TimeErr(pos, e) ==
    [hour |-> 0, minute |-> 0, second |-> 0, nsec |-> 0, pos |-> pos, err |-> e]

\* the value of handleTime with its position one too far
TimeOkPast(hour, minute, second, nsec, pos) ==
    [hour |-> hour, minute |-> minute, second |-> second, nsec |-> nsec,
     pos |-> pos + 1, err |-> Nil]

\* the value of handleTime
TimeOk(hour, minute, second, nsec, pos) ==
    [hour |-> hour, minute |-> minute, second |-> second, nsec |-> nsec,
     pos |-> pos, err |-> Nil]

handleTime(s, pos) ==
    IF pos >= Len(s) THEN TimeErr(pos, "expected time (HH:MM or HH:MM:SS), got %q")
    ELSE
    Then(readNum(s, pos), LAMBDA rh :
    IF rh.err # Nil THEN TimeErr(pos, rh.err)
    ELSE IF Small(rh.n) > 23
    THEN TimeErr(pos, "expected hour in range 0-23, got %d in %q")
    ELSE IF ~(rh.pos < Len(s) /\ At(s, rh.pos) = ":")
    THEN TimeOk(Small(rh.n), 0, 0, 0, rh.pos)
    ELSE
    Then(readNum(s, rh.pos + 1), LAMBDA rmi :
    IF rmi.err # Nil THEN TimeErr(pos, rmi.err)
    ELSE IF Small(rmi.n) > 59
    THEN TimeErr(pos, "expected minute in range 0-59, got %d in %q")
    ELSE IF ~(rmi.pos < Len(s) /\ At(s, rmi.pos) = ":")
    THEN TimeOk(Small(rh.n), Small(rmi.n), 0, 0, rmi.pos)
    ELSE
    Then(readNum(s, rmi.pos + 1), LAMBDA rs :
    IF rs.err # Nil THEN TimeErr(pos, rs.err)
    ELSE IF Small(rs.n) > 59
    THEN TimeErr(pos, "expected second in range 0-59, got %d in %q")
    ELSE IF ~(rs.pos < Len(s) /\ At(s, rs.pos) = ".")
    THEN TimeOk(Small(rh.n), Small(rmi.n), Small(rs.n), 0, rs.pos)
    ELSE
    Then(readFrac(s, rs.pos + 1), LAMBDA rf :
    IF rf.err # Nil THEN TimeErr(pos, rf.err)
    ELSE TimeOk(Small(rh.n), Small(rmi.n), Small(rs.n), rf.n, rf.pos)))))

\* a zone name that runs to the end of the input
NonSpaceEndOfInput(s, i) == Len(s)

RECURSIVE NonSpaceEnd(_, _)
\* for i < len(s) && s[i] != ' ' { i++ }
NonSpaceEnd(s, i) ==
    IF i < Len(s) /\ At(s, i) # " " THEN NonSpaceEnd(s, i + 1) ELSE i

\* the error value of handleTimezone
ZoneErr(pos, e) == [loc |-> UTC, pos |-> pos, err |-> e]

\* the offset branch of handleTimezone: s[pos] is '+' or '-'
handleOffset(s, pos) ==
    LET sign    == IF At(s, pos) = "-" THEN 0 - 1 ELSE 1
        tooBig  == "timezone offset out of range (max 24h), got %d seconds in %q"
        badMins == "timezone offset minutes out of range (0-59), got %d in %q"
    IN  IF pos + 1 >= Len(s) THEN ZoneErr(pos, "expected number after %q in %q")
        ELSE
        Then(readNum(s, pos + 1), LAMBDA rn :
        Then(Small(rn.n), LAMBDA num :
        IF rn.err # Nil THEN ZoneErr(pos, rn.err)
        ELSE IF rn.pos - (pos + 1) = 2
        THEN IF rn.pos < Len(s) /\ At(s, rn.pos) = ":"
             THEN Then(readNum(s, rn.pos + 1), LAMBDA rmi :
                  Then(Small(rmi.n), LAMBDA minutes :
                  IF rmi.err # Nil THEN ZoneErr(pos, rmi.err)
                  ELSE IF rmi.pos - (rn.pos + 1) # 2
                  THEN ZoneErr(pos, "expected 2-digit offset, got %d digits in %q")
                  ELSE IF minutes >= 60 THEN ZoneErr(pos, badMins)
                  ELSE IF num * 3600 + minutes * 60 > 86400 THEN ZoneErr(pos, tooBig)
                  ELSE [loc |-> FixedZone(sign * (num * 3600 + minutes * 60)),
                        pos |-> rmi.pos, err |-> Nil]))
             ELSE IF num > 24
             THEN ZoneErr(pos, "timezone offset out of range (max 24h), got %dh in %q")
             ELSE [loc |-> FixedZone(sign * num * 3600), pos |-> rn.pos, err |-> Nil]
        ELSE IF rn.pos - (pos + 1) = 4
        THEN IF num % 100 >= 60 THEN ZoneErr(pos, badMins)
             ELSE IF (num \div 100) * 3600 + (num % 100) * 60 > 86400
             THEN ZoneErr(pos, tooBig)
             ELSE [loc |-> FixedZone(sign * ((num \div 100) * 3600 + (num % 100) * 60)),
                   pos |-> rn.pos, err |-> Nil]
        ELSE ZoneErr(pos, "expected 2- or 4-digit offset, got %d digits in %q")))

handleTimezone(s, pos) ==
    LET rest == Slice(s, pos, Len(s))
        i    == NonSpaceEnd(s, pos)
    IN  IF pos >= Len(s) THEN ZoneErr(pos, "expected timezone, got %q")
        ELSE IF rest = <<"Z">> THEN [loc |-> UTC, pos |-> pos + 1, err |-> Nil]
        ELSE IF rest = <<"U", "T", "C">> THEN [loc |-> UTC, pos |-> pos + 3, err |-> Nil]
        ELSE IF At(s, pos) = "+" \/ At(s, pos) = "-" THEN handleOffset(s, pos)
        ELSE IF i = pos THEN ZoneErr(pos, "expected timezone, got %q")
        ELSE
        Then(LoadLocation(Slice(s, pos, i)), LAMBDA ll :
        IF ll.err # Nil THEN ZoneErr(pos, "expected timezone, got %q in %q: %w")
        ELSE [loc |-> ll.loc, pos |-> i, err |-> Nil])

\* the weekday names of the switch of handleWeekday, by time.Weekday
WeekdayNames ==
    <<{<<"s", "u", "n">>, <<"s", "u", "n", "d", "a", "y">>},
      {<<"m", "o", "n">>, <<"m", "o", "n", "d", "a", "y">>},
      {<<"t", "u", "e">>, <<"t", "u", "e", "s", "d", "a", "y">>},
      {<<"w", "e", "d">>, <<"w", "e", "d", "n", "e", "s", "d", "a", "y">>},
      {<<"t", "h", "u">>, <<"t", "h", "u", "r", "s", "d", "a", "y">>},
      {<<"f", "r", "i">>, <<"f", "r", "i", "d", "a", "y">>},
      {<<"s", "a", "t">>, <<"s", "a", "t", "u", "r", "d", "a", "y">>}>>

\* the weekday word passed over without being reported to the caller
handleWeekdayUnreported(s, pos) ==
    [wd |-> 0, pos |-> WordEnd(s, pos), found |-> FALSE]

handleWeekday(s, pos) ==
    LET w    == readWord(s, pos)
        name == ToLower(w.word)
    IN  IF w.word # <<>> /\ \E k \in 1..7 : name \in WeekdayNames[k]
        THEN [wd |-> (CHOOSE k \in 1..7 : name \in WeekdayNames[k]) - 1,
              pos |-> w.pos, found |-> TRUE]
        ELSE [wd |-> 0, pos |-> pos, found |-> FALSE]

\* a failed parse that returns the epoch and the error
FailAtEpoch(e) == [t |-> [sec |-> Zero64, nsec |-> 0, loc |-> UTC], err |-> e]

\* a failed parse returns time.Time{} and the error
Fail(e) == [t |-> ZeroTime, err |-> e]

handleToken(s, now) ==
    LET isToday     == Len(s) >= 5 /\ Slice(s, 0, 5) = <<"t", "o", "d", "a", "y">>
        isYesterday == Len(s) >= 9
                       /\ Slice(s, 0, 9) = <<"y", "e", "s", "t", "e", "r", "d", "a", "y">>
        isTomorrow  == Len(s) >= 8
                       /\ Slice(s, 0, 8) = <<"t", "o", "m", "o", "r", "r", "o", "w">>
        tokenLen    == IF isToday THEN 5 ELSE IF isYesterday THEN 9 ELSE 8
        offset      == IF isToday THEN 0 ELSE IF isYesterday THEN 0 - 1 ELSE 1
    IN  IF ~(isToday \/ isYesterday \/ isTomorrow)
        THEN [t |-> ZeroTime, matched |-> FALSE, err |-> Nil]
        ELSE
        Then(SpacesEnd(s, tokenLen), LAMBDA i :
        Then(IF i < Len(s) THEN handleTimezone(s, i)
             ELSE [loc |-> now.loc, pos |-> i, err |-> Nil], LAMBDA tz :
        IF tz.err # Nil THEN [t |-> ZeroTime, matched |-> TRUE, err |-> tz.err]
        ELSE IF tz.pos < Len(s)
        THEN [t |-> ZeroTime, matched |-> TRUE, err |-> "expected end of input, got %q in %q"]
        ELSE
        Then(DateOf(In(now, tz.loc)), LAMBDA today :
        [t |-> Date(today.year, today.month, today.day + offset, 0, 0, 0, 0, tz.loc),
         matched |-> TRUE, err |-> Nil])))

handleUnix(s) ==
    Then(readNum(s, 0), LAMBDA rn :
    IF rn.err # Nil THEN Fail(rn.err)
    ELSE
    Then(IF rn.pos < Len(s) /\ At(s, rn.pos) = "." THEN readFrac(s, rn.pos + 1)
         ELSE [n |-> 0, pos |-> rn.pos, err |-> Nil], LAMBDA rf :
    IF rf.err # Nil THEN Fail(rf.err)
    ELSE IF rf.pos < Len(s) THEN Fail("expected end of input, got %q in %q")
    ELSE [t |-> Unix(rn.n, rf.n), err |-> Nil]))

\* strings.HasSuffix
HasSuffix(s, suffix) ==
    Len(s) >= Len(suffix) /\ Slice(s, Len(s) - Len(suffix), Len(s)) = suffix

RECURSIVE LookAheadUnbounded(_, _, _)
\* a look-ahead that goes on to the end of the input
LookAheadUnbounded(s, j, end) ==
    IF ~(j < Len(s)) THEN "none"
    ELSE IF At(s, j) = ":" THEN "colon"
    ELSE IF At(s, j) = "-" THEN "dash"
    ELSE LookAheadUnbounded(s, j + 1, end)

\* a look-ahead that finds a colon wherever it looks
LookAheadColon(s, j, end) == "colon"

RECURSIVE LookAhead(_, _, _)
\* the look-ahead of ParseTimestamp: the first ':' or '-' of s[j:end], if any
LookAhead(s, j, end) ==
    IF ~(j < Len(s) /\ j < end) THEN "none"
    ELSE IF At(s, j) = ":" THEN "colon"
    ELSE IF At(s, j) = "-" THEN "dash"
    ELSE LookAhead(s, j + 1, end)

\* a weekday check on the day of the instant in UTC
WeekdayAgreesInUTC(t, expectedWeekday) == Weekday(In(t, UTC)) = expectedWeekday

\* the weekday check at the end of ParseTimestamp
WeekdayAgrees(t, expectedWeekday) == Weekday(t) = expectedWeekday

\* the last part of ParseTimestamp: a date and/or a time with optional weekday
\* and timezone
ParseCivil(s, now) ==
    Then(handleWeekday(s, 0), LAMBDA w :
    Then(IF w.found THEN SpacesEnd(s, w.pos) ELSE w.pos, LAMBDA i0 :
    Then(IF i0 < Len(s) /\ IsDigit(At(s, i0)) THEN LookAhead(s, i0, i0 + 5) ELSE "none",
         LAMBDA look :
    Then(DateOf(now), LAMBDA today :
    \* the date, or today
    Then(IF i0 < Len(s) /\ look = "dash" THEN handleDate(s, i0)
         ELSE [year |-> today.year, month |-> today.month, day |-> today.day,
               pos |-> i0, fullYear |-> FALSE, err |-> Nil], LAMBDA dt :
    IF dt.err # Nil THEN Fail(dt.err)
    ELSE IF look = "dash" /\ dt.pos < Len(s) /\ At(s, dt.pos) = "T" /\ ~dt.fullYear
    THEN Fail("expected 4-digit year before 'T' separator, got 2-digit year in %q")
    ELSE
    Then(IF look # "dash" THEN i0
         ELSE IF dt.pos < Len(s) /\ At(s, dt.pos) = "T" THEN dt.pos + 1
         ELSE SpacesEnd(s, dt.pos), LAMBDA i1 :
    IF i1 < Len(s) /\ IsDigit(At(s, i1)) /\ look = "none"
    THEN Fail("expected ':' in time-only format, got %q")
    ELSE
    \* the time, or 00:00:00
    Then(IF i1 < Len(s) /\ IsDigit(At(s, i1)) THEN handleTime(s, i1)
         ELSE TimeOk(0, 0, 0, 0, i1), LAMBDA tm :
    IF tm.err # Nil THEN Fail(tm.err)
    ELSE
    Then(IF i1 < Len(s) /\ IsDigit(At(s, i1)) THEN SpacesEnd(s, tm.pos) ELSE i1,
         LAMBDA i2 :
    \* the timezone after the time, or after the date if there is no time, or
    \* the location of the reference instant
    Then(IF i2 < Len(s)
            /\ (~(i1 < Len(s) /\ IsDigit(At(s, i1)))
                \/ At(s, i2) \in {"+", "-", "Z"} \/ IsLetter(At(s, i2)))
         THEN handleTimezone(s, i2)
         ELSE [loc |-> now.loc, pos |-> i2, err |-> Nil], LAMBDA tz :
    IF tz.err # Nil THEN Fail(tz.err)
    ELSE IF tz.pos < Len(s) THEN Fail("expected end of input, got %q in %q")
    ELSE IF w.found /\ look # "dash" THEN Fail("expected date after weekday in %q")
    ELSE
    Then(Date(dt.year, dt.month, dt.day, tm.hour, tm.minute, tm.second, tm.nsec, tz.loc),
         LAMBDA t :
    IF w.found /\ ~WeekdayAgrees(t, w.wd)
    THEN Fail("expected weekday %s for %s, got %s in %q")
    ELSE [t |-> t, err |-> Nil]))))))))))

\* a switch over the relative forms that looks at the end of the input
\* before it looks at the start
RelativeFormSuffixFirst(s) ==
    IF HasSuffix(s, <<" ", "a", "g", "o">>)
    THEN [found |-> TRUE, text |-> Slice(s, 0, Len(s) - 4), negate |-> TRUE]
    ELSE IF HasSuffix(s, <<" ", "l", "e", "f", "t">>)
    THEN [found |-> TRUE, text |-> Slice(s, 0, Len(s) - 5), negate |-> FALSE]
    ELSE IF At(s, 0) = "-"
    THEN [found |-> TRUE, text |-> Slice(s, 1, Len(s)), negate |-> TRUE]
    ELSE IF At(s, 0) = "+"
    THEN [found |-> TRUE, text |-> Slice(s, 1, Len(s)), negate |-> FALSE]
    ELSE [found |-> FALSE, text |-> <<>>, negate |-> FALSE]

\* a reading of the suffix " left" that goes back in time
RelativeFormBack(s) ==
    IF At(s, 0) = "-" \/ At(s, 0) = "+"
    THEN [found |-> TRUE, text |-> Slice(s, 1, Len(s)), negate |-> At(s, 0) = "-"]
    ELSE IF HasSuffix(s, <<" ", "a", "g", "o">>)
    THEN [found |-> TRUE, text |-> Slice(s, 0, Len(s) - 4), negate |-> TRUE]
    ELSE IF HasSuffix(s, <<" ", "l", "e", "f", "t">>)
    THEN [found |-> TRUE, text |-> Slice(s, 0, Len(s) - 5), negate |-> TRUE]
    ELSE [found |-> FALSE, text |-> <<>>, negate |-> FALSE]

\* the switch over the relative forms of ParseTimestamp: the time span of the
\* form, and whether it is subtracted
RelativeForm(s) ==
    IF At(s, 0) = "-"
    THEN [found |-> TRUE, text |-> Slice(s, 1, Len(s)), negate |-> TRUE]
    ELSE IF At(s, 0) = "+"
    THEN [found |-> TRUE, text |-> Slice(s, 1, Len(s)), negate |-> FALSE]
    ELSE IF HasSuffix(s, <<" ", "a", "g", "o">>)
    THEN [found |-> TRUE, text |-> Slice(s, 0, Len(s) - 4), negate |-> TRUE]
    ELSE IF HasSuffix(s, <<" ", "l", "e", "f", "t">>)
    THEN [found |-> TRUE, text |-> Slice(s, 0, Len(s) - 5), negate |-> FALSE]
    ELSE [found |-> FALSE, text |-> <<>>, negate |-> FALSE]

\* the body of each relative case: the reference instant moved by the span
Relative(form, now) ==
    Then(ParseTimespan(form.text), LAMBDA r :
    IF r.err # Nil THEN Fail(r.err)
    ELSE [t |-> TimeAdd(now, IF form.negate THEN Neg64(r.d) ELSE r.d), err |-> Nil])

\* "now" matched at the start of the input, as the day words are
ParseTimestampNowFirst(s, now) ==
    IF Len(s) >= 3 /\ Slice(s, 0, 3) = <<"n", "o", "w">> THEN [t |-> now, err |-> Nil]
    ELSE Fail("expected timestamp, got %q")

ParseTimestamp(s, now) ==
    IF s = <<>> THEN Fail("expected timestamp, got empty string")
    ELSE IF s = <<"n", "o", "w">> THEN [t |-> now, err |-> Nil]
    ELSE IF At(s, 0) = "@"
    THEN IF Len(s) = 1 THEN Fail("expected number after %q in %q")
         ELSE handleUnix(Slice(s, 1, Len(s)))
    ELSE
    Then(RelativeForm(s), LAMBDA form :
    IF form.found THEN Relative(form, now)
    ELSE
    Then(IF IsLetter(At(s, 0)) THEN handleToken(s, now)
         ELSE [t |-> ZeroTime, matched |-> FALSE, err |-> Nil], LAMBDA tok :
    IF tok.matched THEN [t |-> tok.t, err |-> tok.err]
    ELSE IF IsDigit(At(s, 0)) \/ IsLetter(At(s, 0)) THEN ParseCivil(s, now)
    ELSE Fail("expected timestamp, got %q")))

-----------------------------------------------------------------------------
(* The callers of ParseTimespan *)

\* the largest number of groups a caller puts into one time span
MaxGroups == 2

\* the longest input a caller hands to a parser, in bytes
MaxLen == 8

Spaces(n) == [k \in 1..n |-> " "]

\* the spellings of the unit table, one list per case of the switch
UnitWords ==
    {<<"n", "s">>, <<"n", "s", "e", "c">>,
     <<"u", "s">>, <<"xC2", "xB5", "s">>, <<"xCE", "xBC", "s">>, <<"u", "s", "e", "c">>,
     <<"m", "s">>, <<"m", "s", "e", "c">>,
     <<"s">>, <<"s", "e", "c">>, <<"s", "e", "c", "o", "n", "d">>,
     <<"s", "e", "c", "o", "n", "d", "s">>,
     <<"m">>, <<"m", "i", "n">>, <<"m", "i", "n", "u", "t", "e">>,
     <<"m", "i", "n", "u", "t", "e", "s">>,
     <<"h">>, <<"h", "r">>, <<"h", "o", "u", "r">>, <<"h", "o", "u", "r", "s">>,
     <<"d">>, <<"d", "a", "y">>, <<"d", "a", "y", "s">>,
     <<"w">>, <<"w", "e", "e", "k">>, <<"w", "e", "e", "k", "s">>,
     <<"M">>, <<"m", "o", "n", "t", "h">>, <<"m", "o", "n", "t", "h", "s">>,
     <<"y">>, <<"y", "e", "a", "r">>, <<"y", "e", "a", "r", "s">>}

\* A group as the caller writes it: sep spaces, the integer digits, one "."
\* and a digit string (possibly empty) per element of fracs, gap spaces, and
\* the unit word.
Render(g) ==
    LET RECURSIVE Dots(_)
        Dots(fs) == IF fs = <<>> THEN <<>> ELSE <<".">> \o Head(fs) \o Dots(Tail(fs))
    IN  Spaces(g.sep) \o g.int \o Dots(g.fracs) \o Spaces(g.gap) \o g.unit

RECURSIVE RenderAll(_)
RenderAll(gs) == IF gs = <<>> THEN <<>> ELSE Render(Head(gs)) \o RenderAll(Tail(gs))

\* the integers a caller writes: one digit, leading zeros, three digits
PlainInts == {<<"7">>, <<"0", "1", "2">>, <<"3", "0", "0">>}

\* groups of digits and a unit word of the table
PlainGroups ==
    [sep : {0, 1}, int : PlainInts, fracs : {<<>>}, gap : {0, 1}, unit : UnitWords]

\* the reference instant of the callers of ParseTimespan, which take none
NoRef == <<>>

\* what ret holds before the first call
NoCall == [d |-> Zero64, err |-> Nil]

InitSpan ==
    /\ input = <<>>
    /\ shape = <<>>
    /\ ref = NoRef
    /\ op = "none"
    /\ ret = NoCall

\* a caller parses the time span it had, extended by one more group
CallParseTimespan(groups, bound) ==
    \E g \in groups :
        /\ Len(shape) < MaxGroups
        /\ Len(input) + Len(Render(g)) <= bound
        /\ shape' = Append(shape, g)
        /\ input' = input \o Render(g)
        /\ op' = "ParseTimespan"
        /\ ret' = ParseTimespan(input')
        /\ UNCHANGED ref

NextSpan == CallParseTimespan(PlainGroups, MaxLen)

SpecSpan == InitSpan /\ [][NextSpan]_vars

\* the longest input of a caller that writes decimal points
MaxFracLen == 9

\* groups with decimal points: a fraction, a second point, a point with no
\* digit behind it; with a unit of the table, without one, or with "H"
FracGroups ==
    {g \in [sep : {0, 1}, int : {<<>>, <<"7">>},
            fracs : {<<>>, <<<<"5">>>>, <<<<"2">>, <<"3">>>>, <<<<>>>>, <<<<>>, <<"5">>>>},
            gap : {0},
            unit : {<<>>, <<"s">>, <<"m", "i", "n">>, <<"d", "a", "y", "s">>, <<"H">>}] :
        g.int # <<>> \/ g.fracs # <<>>}

NextFrac == CallParseTimespan(FracGroups, MaxFracLen)

SpecFrac == InitSpan /\ [][NextFrac]_vars

-----------------------------------------------------------------------------
(* The error kinds of the specification, by the message of the code *)

ErrKind(e) ==
    CASE e = Nil -> "none"
      [] e \in {"expected time span, got empty string",
                "expected time span, got %q"} -> "EmptyInput"
      [] e \in {"expected number in %q", "expected number, got %q in %q: %w",
                "expected number, got %q in %q",
                "expected number after %q in %q"} -> "MalformedNumber"
      [] e = "expected unit, got %q in %q" -> "UnknownUnit"
      [] e \in {"expected month in range 1-12, got %d in %q",
                "expected day in range 1-31, got %d in %q",
                "expected hour in range 0-23, got %d in %q",
                "expected minute in range 0-59, got %d in %q",
                "expected second in range 0-59, got %d in %q"}
           -> "CalendarFieldOutOfRange"
      [] e \in {"expected 2-digit offset, got %d digits in %q",
                "expected 2- or 4-digit offset, got %d digits in %q"}
           -> "MalformedOffset"
      [] e \in {"timezone offset minutes out of range (0-59), got %d in %q",
                "timezone offset out of range (max 24h), got %d seconds in %q",
                "timezone offset out of range (max 24h), got %dh in %q"}
           -> "OffsetOutOfRange"
      [] e \in {"expected timezone, got %q", "expected timezone, got %q in %q: %w"}
           -> "UnknownTimezone"
      [] e = "expected ':' in time-only format, got %q" -> "AmbiguousTimeFormat"
      [] e = "expected date after weekday in %q" -> "WeekdayRequiresDate"
      [] e = "expected weekday %s for %s, got %s in %q" -> "WeekdayMismatch"
      [] e = "expected end of input, got %q in %q" -> "TrailingInput"
      [] OTHER -> "other"

-----------------------------------------------------------------------------
(* C1 *)

\* the number a digit string spells, for the short strings of the callers
RECURSIVE Decimal(_, _)
Decimal(ds, acc) ==
    IF ds = <<>> THEN acc ELSE Decimal(Tail(ds), 10 * acc + DigitVal(Head(ds)))

\* the scale the claim gives a unit word, as days, seconds and nanoseconds:
\* ns=1, us=1e3, ms=1e6, s=1e9 ns, m=60 s, h=3600 s, d=86400 s, w=604800 s,
\* M=2629800 s (30 d + 37800 s), y=31557600 s (365 d + 21600 s)
ClaimedScale(w) ==
    CASE Head(w) = "n" -> [days |-> 0, secs |-> 0, ns |-> 1]
      [] Head(w) \in {"u", "xC2", "xCE"} -> [days |-> 0, secs |-> 0, ns |-> 1000]
      [] w \in {<<"m", "s">>, <<"m", "s", "e", "c">>}
           -> [days |-> 0, secs |-> 0, ns |-> 1000000]
      [] Head(w) = "s" -> [days |-> 0, secs |-> 1, ns |-> 0]
      [] Head(w) = "m" /\ (Len(w) = 1 \/ w[2] = "i")
           -> [days |-> 0, secs |-> 60, ns |-> 0]
      [] Head(w) = "h" -> [days |-> 0, secs |-> 3600, ns |-> 0]
      [] Head(w) = "d" -> [days |-> 1, secs |-> 0, ns |-> 0]
      [] Head(w) = "w" -> [days |-> 7, secs |-> 0, ns |-> 0]
      [] Head(w) = "M" \/ (Head(w) = "m" /\ w[2] = "o")
           -> [days |-> 30, secs |-> 37800, ns |-> 0]
      [] Head(w) = "y" -> [days |-> 365, secs |-> 21600, ns |-> 0]

\* days, seconds and nanoseconds with the carries taken
Carried(days, secs, ns) ==
    LET s2 == secs + ns \div 1000000000
    IN  [days |-> days + s2 \div 86400, secs |-> s2 % 86400, ns |-> ns % 1000000000]

RECURSIVE ClaimedSum(_)
\* the sum over the groups of integer x unit-scale
ClaimedSum(gs) ==
    IF gs = <<>> THEN [days |-> 0, secs |-> 0, ns |-> 0]
    ELSE LET n    == Decimal(Head(gs).int, 0)
             sc   == ClaimedScale(Head(gs).unit)
             rest == ClaimedSum(Tail(gs))
         IN  Carried(n * sc.days + rest.days, n * sc.secs + rest.secs,
                     n * sc.ns + rest.ns)

\* the sum is at most 2^63 - 1 ns = 106751 d 85636 s 854775807 ns
FitsInt64(e) ==
    \/ e.days < 106751
    \/ e.days = 106751 /\ e.secs < 85636
    \/ e.days = 106751 /\ e.secs = 85636 /\ e.ns <= 854775807

\* a duration the code returned, as days, seconds and nanoseconds
AsDaysSecsNs(d) ==
    [days |-> Small(Quo64(QuoE9(d), 86400)), secs |-> Rem64(QuoE9(d), 86400),
     ns |-> RemE9(d)]

IsPlainGroup(g) ==
    /\ g.int # <<>> /\ g.fracs = <<>>
    /\ \A k \in 1..Len(g.int) : IsDigit(g.int[k])
    /\ g.unit \in UnitWords

\* C1: for an input made only of groups <digits><spaces><unit word of the
\* table>, separated by zero or more spaces, ParseTimespan succeeds and
\* returns the sum over the groups of integer x unit-scale, whenever that sum
\* fits a signed 64-bit nanosecond count.
C1_SumOfGroups ==
    (/\ op = "ParseTimespan"
     /\ shape # <<>>
     /\ \A k \in 1..Len(shape) : IsPlainGroup(shape[k])
     /\ FitsInt64(ClaimedSum(shape)))
    => /\ ret.err = Nil
       /\ ~IsNeg64(ret.d)
       /\ AsDaysSecsNs(ret.d) = ClaimedSum(shape)

\* two groups of different units, one of them spaced, have been summed
C1_Witness ==
    /\ op = "ParseTimespan"
    /\ Len(shape) = 2
    /\ IsPlainGroup(shape[1]) /\ IsPlainGroup(shape[2])
    /\ shape[1].unit = <<"M">> /\ shape[2].unit = <<"m", "s">>
    /\ shape[2].sep = 1
    /\ FitsInt64(ClaimedSum(shape))
    /\ ret.err = Nil
    /\ ret.d = Add64(Mul64(I64(7), Month), Mul64(I64(12), Millisecond))

-----------------------------------------------------------------------------
(* C2, C3 *)

\* the unit a group is counted in, by the claim: the scale of its word,
\* seconds when it has none
GroupScale(g) ==
    IF g.unit = <<>> THEN ClaimedScale(<<"s">>)
    ELSE IF g.unit \in UnitWords THEN ClaimedScale(g.unit)
    ELSE [days |-> 0, secs |-> 0, ns |-> 0]

ScalesOf(gs) == {GroupScale(gs[k]) : k \in 1..Len(gs)}

\* C2: for two disjoint-unit timespans A and B that ParseTimespan accepts,
\* ParseTimespan(A + " " + B) succeeds and equals ParseTimespan(A) +
\* ParseTimespan(B), also when A ends in a unit-less number and B starts with
\* a "."-prefixed fraction.
C2_ConcatIsSum ==
    op = "ParseTimespan" =>
        \A k \in 1..(Len(shape) - 1) :
            shape[k + 1].sep >= 1 =>
                LET A  == SubSeq(shape, 1, k)
                    B  == [j \in 1..(Len(shape) - k) |->
                             IF j = 1 THEN [shape[k + 1] EXCEPT !.sep = @ - 1]
                             ELSE shape[k + j]]
                    rA == ParseTimespan(RenderAll(A))
                    rB == ParseTimespan(RenderAll(B))
                IN  (/\ input = RenderAll(A) \o <<" ">> \o RenderAll(B)
                     /\ rA.err = Nil /\ rB.err = Nil
                     /\ ScalesOf(A) \cap ScalesOf(B) = {})
                    => /\ ret.err = Nil
                       /\ ret.d = Add64(rA.d, rB.d)

\* the groups of shape in the order p, each separator staying in its place
Permuted(p) ==
    RenderAll([k \in 1..Len(shape) |-> [shape[p[k]] EXCEPT !.sep = shape[k].sep]])

\* C3: for an accepted input whose groups each carry an explicit unit, every
\* permutation of the groups is accepted and returns the same duration.
C3_OrderIndependent ==
    (/\ op = "ParseTimespan"
     /\ ret.err = Nil
     /\ \A k \in 1..Len(shape) : shape[k].unit # <<>>)
    => \A p \in Permutations(1..Len(shape)) :
           ParseTimespan(Permuted(p)) = ret

-----------------------------------------------------------------------------
(* C4 *)

\* The group written last starts a number of its own: it is the first group, or
\* a unit word or a space keeps its digits (its leading point) apart from the
\* number before, and the groups before it are accepted.
LastStartsNumber ==
    /\ shape # <<>>
    /\ Len(shape) > 1 =>
        LET prev  == shape[Len(shape) - 1]
            g     == shape[Len(shape)]
            apart == g.sep >= 1 \/ (prev.unit = <<>> /\ prev.gap >= 1)
        IN  /\ IF g.int # <<>> THEN prev.unit # <<>> \/ apart
                               ELSE prev.unit # <<>> /\ apart
            /\ ParseTimespan(RenderAll(SubSeq(shape, 1, Len(shape) - 1))).err = Nil

LastFracs == shape[Len(shape)].fracs

-----------------------------------------------------------------------------
(* The callers of ParseTimestamp *)

\* the reference instants the callers pass: 2009-11-10T23:00:00Z, once in UTC
\* on the second and once in Tokyo (where it is 08:00 of the next day) just
\* before the next second
Tokyo == LoadLocation(<<"A", "s", "i", "a", "/", "T", "o", "k", "y", "o">>).loc

Refs ==
    {[sec |-> I64(1257894000), nsec |-> 0, loc |-> UTC],
     [sec |-> I64(1257894000), nsec |-> 999999999, loc |-> Tokyo]}

\* what ret holds before the first call of ParseTimestamp
NoStamp == [t |-> ZeroTime, err |-> Nil]

InitStamp ==
    /\ input = <<>>
    /\ shape = <<>>
    /\ ref \in Refs
    /\ op = "none"
    /\ ret = NoStamp

\* A part of a civil timestamp as the caller writes it: what it is meant to
\* be, what separates it from the part before it, its text, and the numbers
\* the caller means by it.
Part(kind, lead, text, val) == [kind |-> kind, lead |-> lead, text |-> text, val |-> val]

\* a weekday word and the weekday it names (0 is Sunday), or -1 if it names none
WeekdayPart(word, wd) == Part("weekday", <<>>, word, <<wd>>)

\* a date, with the number of digits of its year token and the values of its
\* three fields
DatePart(y, m, d) ==
    Part("date", <<" ">>, y \o <<"-">> \o m \o <<"-">> \o d,
         <<Len(y), Decimal(y, 0), Decimal(m, 0), Decimal(d, 0)>>)

\* a time of hours and minutes with optional seconds, after a space or a 'T'
TimePart(lead, h, m, sec) ==
    Part("time", lead,
         h \o <<":">> \o m \o (IF sec = <<>> THEN <<>> ELSE <<":">> \o sec),
         <<Decimal(h, 0), Decimal(m, 0), Decimal(sec, 0)>>)

\* a timezone and its offset, known = 1 if the caller means an existing zone
ZonePart(lead, text, known, offset) == Part("zone", lead, text, <<known, offset>>)

\* further text after the timestamp: 1 for a date, 2 for a time, 0 for a word
TrailPart(text, what) == Part("trail", <<" ">>, text, <<what>>)

\* the order of the parts in the general form; text before the timestamp
\* comes first, a word or an '@' number stands where the weekday does, and
\* a fraction where the time does
Rank(kind) ==
    CASE kind = "before" -> 0
      [] kind \in {"word", "unix"} -> 1
      [] kind = "fraction" -> 3
      [] kind = "weekday" -> 1
      [] kind = "date" -> 2
      [] kind = "time" -> 3
      [] kind = "zone" -> 4
      [] kind = "trail" -> 5

\* a caller parses the timestamp it had, extended by one more part; the
\* separator of a part is left out at the start, and a 'T' follows a date only
CallParseTimestamp(parts) ==
    \E p \in parts :
        /\ IF shape = <<>> THEN p.kind # "trail" /\ p.lead # <<"T">>
           ELSE /\ Rank(shape[Len(shape)].kind) < Rank(p.kind)
                /\ p.lead = <<"T">> => shape[Len(shape)].kind = "date"
        /\ shape' = Append(shape, p)
        /\ input' = input \o (IF shape = <<>> THEN <<>> ELSE p.lead) \o p.text
        /\ op' = "ParseTimestamp"
        /\ ret' = ParseTimestamp(input', ref)
        /\ UNCHANGED ref

\* weekday words: abbreviated and full, in three spellings of case, naming
\* four different days, and a word that is neither form of a name
CivilWeekdays ==
    {WeekdayPart(<<"T", "u", "e">>, 2),
     WeekdayPart(<<"T", "U", "E", "S", "D", "A", "Y">>, 2),
     WeekdayPart(<<"m", "o", "n">>, 1),
     WeekdayPart(<<"W", "e", "d">>, 3),
     WeekdayPart(<<"T", "u", "e", "s">>, 0 - 1)}

\* a Tuesday; the 30th of February, which is Monday the 2nd of March; and a
\* thirteenth month
CivilDates ==
    {DatePart(<<"2", "0", "0", "9">>, <<"1", "1">>, <<"1", "0">>),
     DatePart(<<"2", "0", "0", "9">>, <<"0", "2">>, <<"3", "0">>),
     DatePart(<<"2", "0", "0", "9">>, <<"1", "3">>, <<"1", "0">>)}

CivilTimes ==
    {TimePart(lead, hm[1], hm[2], sec) :
        lead \in {<<" ">>, <<"T">>},
        hm \in {<<<<"1", "8">>, <<"1", "5">>>>, <<<<"0", "0">>, <<"3", "0">>>>,
                <<<<"2", "5">>, <<"0", "0">>>>},
        sec \in {<<>>, <<"2", "2">>}}

CivilZones ==
    {ZonePart(<<" ">>, <<"U", "T", "C">>, 1, 0),
     ZonePart(<<>>, <<"Z">>, 1, 0),
     ZonePart(<<" ">>, <<"+", "0", "5", ":", "3", "0">>, 1, 19800),
     ZonePart(<<" ">>, <<"A", "s", "i", "a", "/", "T", "o", "k", "y", "o">>, 1, 32400),
     ZonePart(<<" ">>, <<"F", "o", "o">>, 0, 0)}

CivilTrails ==
    {TrailPart(<<"2", "0", "0", "9", "-", "1", "1", "-", "1", "0">>, 1),
     TrailPart(<<"1", "8", ":", "1", "5", ":", "2", "2">>, 2),
     TrailPart(<<"x">>, 0)}

CivilParts == CivilWeekdays \cup CivilDates \cup CivilTimes \cup CivilZones \cup CivilTrails

NextCivil == CallParseTimestamp(CivilParts)

SpecCivil == InitStamp /\ [][NextCivil]_vars

\* the parts the caller has written
Has(kind) == \E k \in 1..Len(shape) : shape[k].kind = kind

The(kind) == shape[CHOOSE k \in 1..Len(shape) : shape[k].kind = kind]

\* the caller means the part to be acceptable in itself
WellFormed(p) ==
    CASE p.kind = "weekday" -> p.val[1] >= 0
      [] p.kind = "date" -> p.val[3] \in 1..12 /\ p.val[4] \in 1..31
      [] p.kind = "time" -> p.val[1] <= 23 /\ p.val[2] <= 59 /\ p.val[3] <= 59
      [] p.kind = "zone" -> p.val[1] = 1
      [] p.kind = "trail" -> TRUE

\* the input is a civil timestamp of acceptable parts, with a date or a time
CivilWellFormed ==
    /\ Has("date") \/ Has("time")
    /\ \A k \in 1..Len(shape) : WellFormed(shape[k])

-----------------------------------------------------------------------------
(* C5: text after a civil timestamp *)

\* the part before the trailing text
BeforeTrail == shape[Len(shape) - 1]

TrailingCase == op = "ParseTimestamp" /\ CivilWellFormed /\ Has("trail")

-----------------------------------------------------------------------------
(* C6: a civil timestamp needs a date or a time *)

\* C6 as claimed: ParseTimestamp fails for every input of the general form
\* that holds neither a date nor a time, an input that is only a timezone
\* included.
C6_DateOrTimeRequired ==
    (op = "ParseTimestamp" /\ ~Has("date") /\ ~Has("time") /\ ~Has("trail"))
    => ret.err # Nil

-----------------------------------------------------------------------------
(* C10: the weekday of the input against the weekday of its date *)

\* the weekday (0 is Sunday) of the day that lies d - 1 days after the first
\* of month m of year y, by the table of month offsets
DayOfWeek(y, m, d) ==
    LET offsets == <<0, 3, 2, 5, 0, 3, 5, 1, 4, 6, 2, 4>>
        yy      == IF m < 3 THEN y - 1 ELSE y
    IN  (yy + yy \div 4 - yy \div 100 + yy \div 400 + offsets[m] + d) % 7

\* a weekday word, then an acceptable date, then an acceptable time and
\* timezone or none, and nothing more
WeekdayCase ==
    /\ op = "ParseTimestamp"
    /\ Has("weekday") /\ Has("date") /\ ~Has("trail")
    /\ \A k \in 1..Len(shape) : shape[k].kind # "weekday" => WellFormed(shape[k])

\* C10: with a weekday word and a date, ParseTimestamp succeeds exactly if the
\* word names, in any case and as abbreviation or full name, the weekday of
\* the date after normalisation of its day; another weekday fails with
\* WeekdayMismatch, and a word that is neither form of a name fails.
C10_WeekdayChecked ==
    WeekdayCase
    => LET w == The("weekday").val[1]
           d == The("date").val
       IN  IF w < 0 THEN ret.err # Nil
           ELSE IF w = DayOfWeek(d[2], d[3], d[4])
           THEN ret.err = Nil /\ Weekday(ret.t) = w
           ELSE ErrKind(ret.err) = "WeekdayMismatch"

\* "mon 2009-02-30", a Monday in March, has been accepted before a timezone
\* east of UTC
C10_Witness ==
    /\ WeekdayCase
    /\ The("weekday").text = <<"m", "o", "n">>
    /\ The("date").val = <<4, 2009, 2, 30>>
    /\ Has("zone") /\ The("zone").val[2] > 0
    /\ ret.err = Nil
    /\ DateOf(ret.t) = [year |-> 2009, month |-> 3, day |-> 2]

-----------------------------------------------------------------------------
(* The callers that write years of one to four digits *)

\* year tokens: the ends of both ranges of two-digit years, one digit, three
\* digits, and four digits with and without leading zeros
YearTokens ==
    {<<"0", "0">>, <<"0", "9">>, <<"6", "8">>, <<"6", "9">>, <<"9", "9">>, <<"9">>,
     <<"1", "0", "0">>, <<"0", "9", "9">>, <<"0", "0", "9", "9">>,
     <<"2", "0", "0", "9">>}

YearDates ==
    {DatePart(y, md[1], md[2]) :
        y \in YearTokens,
        md \in {<<<<"0", "1">>, <<"0", "1">>>>, <<<<"1", "1">>, <<"1", "0">>>>,
                <<<<"1", "2">>, <<"3", "1">>>>}}

YearTimes ==
    {TimePart(lead, <<"1", "8">>, <<"1", "5">>, sec) :
        lead \in {<<" ">>, <<"T">>}, sec \in {<<>>, <<"2", "2">>}}

YearZones == {ZonePart(<<>>, <<"Z">>, 1, 0)}

NextYear == CallParseTimestamp(YearDates \cup YearTimes \cup YearZones)

SpecYear == InitStamp /\ [][NextYear]_vars

\* a date has been written, and the time after it follows a 'T'
DateCase == op = "ParseTimestamp" /\ Has("date")

AfterT == Has("time") /\ The("time").lead = <<"T">>

-----------------------------------------------------------------------------
(* C7: the full-year flag and the 'T' separator *)

\* C7 as claimed: a date whose year token has at least 3 digits keeps the
\* year as written and may be followed by 'T' and a time; a date whose year
\* token has 1 or 2 digits must not be followed by 'T'.
C7_FullYearByDigits ==
    DateCase
    => LET d == The("date").val
       IN  /\ AfterT => (ret.err = Nil <=> d[1] >= 3)
           /\ d[1] >= 3 => (ret.err = Nil => DateOf(ret.t).year = d[2])

-----------------------------------------------------------------------------
(* C8: years of two digits *)

\* C8: a date whose year token has one or two digits and value v resolves to
\* the year 2000 + v if v <= 68 and to 1900 + v otherwise, which lies in
\* 1969..2068, with the month and the day as written.
C8_TwoDigitYears ==
    (DateCase /\ The("date").val[1] <= 2 /\ ~AfterT)
    => LET d == The("date").val
       IN  /\ ret.err = Nil
           /\ DateOf(ret.t) = [year  |-> IF d[2] <= 68 THEN 2000 + d[2] ELSE 1900 + d[2],
                               month |-> d[3],
                               day   |-> d[4]]
           /\ DateOf(ret.t).year \in 1969..2068

\* "68-12-31" has been resolved to the last day of 2068
C8_Witness ==
    /\ DateCase
    /\ input = <<"6", "8", "-", "1", "2", "-", "3", "1">>
    /\ ret.err = Nil
    /\ DateOf(ret.t) = [year |-> 2068, month |-> 12, day |-> 31]

-----------------------------------------------------------------------------
(* The callers that write relative timestamps *)

\* the words a caller writes where a unit goes: units, none, the suffix of a
\* relative timestamp, and a token, which is no unit
RelWords ==
    {<<>>, <<"s">>, <<"y">>, <<" ", "a", "g", "o">>, <<"n", "o", "w">>}

\* what a caller writes where the digits go: digits, none, a sign, an '@'
RelInts == {<<>>, <<"7">>, <<"3", "0", "0">>, <<"+">>, <<"@", "7">>}

RelGroups ==
    {g \in [sep : {0}, int : RelInts, fracs : {<<>>, <<<<"5">>>>}, gap : {0, 1},
            unit : RelWords] :
        g.int # <<>> \/ g.fracs # <<>> \/ g.unit # <<>>}

\* the four relative forms of a time span X
RelForms == {"+X", "-X", "X ago", "X left"}

Compose(form, X) ==
    CASE form = "+X" -> <<"+">> \o X
      [] form = "-X" -> <<"-">> \o X
      [] form = "X ago" -> X \o <<" ", "a", "g", "o">>
      [] form = "X left" -> X \o <<" ", "l", "e", "f", "t">>

\* the longest time span X of a relative timestamp, in bytes
MaxRelLen == 6

\* a caller extends its time span X by one group and parses X in one of the
\* relative forms; shape holds the groups of X
CallRelative ==
    \E g \in RelGroups, form \in RelForms :
        /\ Len(shape) < MaxGroups
        /\ Len(RenderAll(shape)) + Len(Render(g)) <= MaxRelLen
        /\ shape' = Append(shape, g)
        /\ input' = Compose(form, RenderAll(shape'))
        /\ op' = form
        /\ ret' = ParseTimestamp(input', ref)
        /\ UNCHANGED ref

NextRel == CallRelative

SpecRel == InitStamp /\ [][NextRel]_vars

-----------------------------------------------------------------------------
(* C9: the four relative forms *)

\* the nanoseconds from 1970-01-01T00:00:00Z to t, in 64 bits
UnixNano(t) == Add64(Mul64(t.sec, Second), I64(t.nsec))

\* t is the instant d after r in the location of r: the two are d apart, and
\* by less than 2^34 seconds, so that the 64 bits of d say how far
Shifted(t, r, d) ==
    LET far == Mul64(I64(131072), I64(131072))
        gap == Sub64(t.sec, r.sec)
    IN  /\ t.loc = r.loc
        /\ t.nsec \in 0..999999999
        /\ Sub64(UnixNano(t), UnixNano(r)) = d
        /\ Less64(gap, far) /\ Less64(Neg64(far), gap)

\* C9: if ParseTimespan(X) is the duration d, then "+X" and "X left" are the
\* reference instant plus d and "-X" and "X ago" are the reference instant
\* minus d; if ParseTimespan(X) fails, all four forms fail.
C9_RelativeForms ==
    op \in RelForms
    => LET X == ParseTimespan(RenderAll(shape))
       IN  IF X.err # Nil THEN ret.err # Nil
           ELSE /\ ret.err = Nil
                /\ Shifted(ret.t, ref, IF op \in {"+X", "X left"} THEN X.d ELSE Neg64(X.d))

\* "7.5s left" has been resolved to 7.5 s after a reference instant that lies
\* just before a full second
C9_Witness ==
    /\ op = "X left"
    /\ input = <<"7", ".", "5", "s", " ", "l", "e", "f", "t">>
    /\ ref.nsec = 999999999
    /\ ret.err = Nil
    /\ ret.t.sec = Add64(ref.sec, I64(8))
    /\ ret.t.nsec = 499999999

-----------------------------------------------------------------------------
(* C11: a weekday needs a date *)

\* the caller wrote a weekday name as a word of its own and no date, not as
\* trailing text either
WeekdayWithoutDate ==
    /\ op = "ParseTimestamp"
    /\ Has("weekday") /\ The("weekday").val[1] >= 0
    /\ Len(shape) > 1 => shape[2].lead # <<>>
    /\ ~Has("date")
    /\ Has("trail") => The("trail").val[1] # 1

\* C11: a weekday name without a date is never accepted; alone, or followed by
\* an acceptable time, timezone or both, it fails with WeekdayRequiresDate.
C11_WeekdayRequiresDate ==
    WeekdayWithoutDate
    => /\ ret.err # Nil
       /\ (~Has("trail") /\ \A k \in 1..Len(shape) : WellFormed(shape[k]))
            => ErrKind(ret.err) = "WeekdayRequiresDate"

\* "Tue 18:15:22" has been rejected for its missing date
C11_Witness ==
    /\ WeekdayWithoutDate
    /\ input = <<"T", "u", "e", " ", "1", "8", ":", "1", "5", ":", "2", "2">>
    /\ ret.err = "expected date after weekday in %q"

-----------------------------------------------------------------------------
(* Callers of ParseTimestamp: calendar fields at and around their limits *)

MaxMonth == 13
MaxDay == 32

\* a digit as the caller prints it
DigitChar(n) == CHOOSE c \in Digits : DigitVal(c) = n

\* a field printed with two digits
TwoDigits(n) == <<DigitChar(n \div 10), DigitChar(n % 10)>>

\* every month from 00 and every day from 00, in and out of range
FieldDates ==
    {DatePart(<<"2", "0", "0", "9">>, TwoDigits(m), TwoDigits(d)) :
        m \in 0..MaxMonth, d \in 0..MaxDay}

\* the first, the last and the first excluded value of every field of a time
FieldTimes ==
    {TimePart(<<" ">>, TwoDigits(h), TwoDigits(m), sec) :
        h \in {0, 23, 24}, m \in {0, 59, 60},
        sec \in {<<>>, TwoDigits(0), TwoDigits(59), TwoDigits(60)}}

NextField == CallParseTimestamp(FieldDates \cup FieldTimes)

SpecField == InitStamp /\ [][NextField]_vars

-----------------------------------------------------------------------------
(* C12: the ranges of the calendar fields *)

\* the second of the day of t in its location
SecondOfDay(t) == FloorRem64(Add64(t.sec, S64(t.loc.offset)), 86400)

\* the time of day the caller wrote, 00:00:00 without a time
WrittenSecondOfDay ==
    IF Has("time")
    THEN The("time").val[1] * 3600 + The("time").val[2] * 60 + The("time").val[3]
    ELSE 0

\* C12: a date is accepted only with its month in 1..12 and its day in 1..31,
\* a time only with its hour in 0..23, minute in 0..59 and second in 0..59; a
\* field outside its range fails with CalendarFieldOutOfRange, and every day
\* 1..31 is accepted with every month 1..12, whatever the month's length.
C12_FieldRanges ==
    op = "ParseTimestamp"
    => IF \A k \in 1..Len(shape) : WellFormed(shape[k])
       THEN /\ ret.err = Nil
            /\ ret.t.loc = ref.loc
            /\ SecondOfDay(ret.t) = WrittenSecondOfDay
       ELSE ErrKind(ret.err) = "CalendarFieldOutOfRange"

\* "2009-02-31 23:59:59" has been accepted, at the last second of its day
C12_Witness ==
    /\ op = "ParseTimestamp"
    /\ input = <<"2", "0", "0", "9", "-", "0", "2", "-", "3", "1", " ",
                 "2", "3", ":", "5", "9", ":", "5", "9">>
    /\ ret.err = Nil
    /\ SecondOfDay(ret.t) = 86399

-----------------------------------------------------------------------------
(* Callers of ParseTimestamp: numeric offsets of every form *)

\* A numeric offset as the caller writes it: a sign, a run of digits, and
\* possibly a colon and a second run. The caller means hours by two digits,
\* hours and minutes by four digits or by two digits, a colon and two digits,
\* and nothing by any other form; val is <<1 if meant and within 24 hours,
\* offset in seconds, digits of the first run, 1 for a colon, digits of the
\* second run, hours, minutes>>.
OffsetPart(lead, sign, hh, colon, mm) ==
    LET n       == Decimal(hh, 0)
        hours   == IF Len(hh) = 4 THEN n \div 100 ELSE n
        minutes == IF Len(hh) = 4 THEN n % 100 ELSE Decimal(mm, 0)
        formed  == IF colon = 1 THEN Len(hh) = 2 /\ Len(mm) = 2 ELSE Len(hh) \in {2, 4}
        secs    == hours * 3600 + minutes * 60
    IN  Part("zone", lead,
             <<sign>> \o hh \o (IF colon = 1 THEN <<":">> \o mm ELSE <<>>),
             <<IF formed /\ minutes < 60 /\ secs <= 86400 THEN 1 ELSE 0,
               IF sign = "-" THEN 0 - secs ELSE secs,
               Len(hh), colon, Len(mm), hours, minutes>>)

\* runs of one to five digits, at and around 24 hours and 60 minutes
OffsetRuns ==
    {<<>>, <<"5">>, <<"0", "0">>, <<"0", "5">>, <<"2", "4">>, <<"2", "5">>,
     <<"9", "9">>, <<"0", "5", "3">>, <<"0", "5", "3", "0">>,
     <<"2", "4", "0", "0">>, <<"2", "4", "0", "1">>, <<"2", "4", "3", "0">>,
     <<"0", "5", "6", "0">>, <<"9", "9", "0", "0">>, <<"0", "5", "3", "0", "0">>}

\* the runs without a colon; two digits, a colon and a run of no to three
\* digits; and other runs before a colon
OffsetZones ==
    {OffsetPart(lead, sign, hh, 0, <<>>) :
        lead \in {<<>>, <<" ">>}, sign \in {"+", "-"}, hh \in OffsetRuns}
    \cup {OffsetPart(lead, sign, hh, 1, mm) :
            lead \in {<<>>, <<" ">>}, sign \in {"+", "-"},
            hh \in {<<>>, <<"5">>, <<"0", "5">>, <<"2", "4">>, <<"9", "9">>,
                    <<"0", "5", "3", "0">>},
            mm \in {<<>>, <<"0">>, <<"0", "0">>, <<"3", "0">>, <<"5", "9">>,
                    <<"6", "0">>, <<"3", "0", "0">>}}

\* the offset follows the date 2009-11-10, the time 18:15:22 or both
NextOffset ==
    CallParseTimestamp(
        {DatePart(<<"2", "0", "0", "9">>, <<"1", "1">>, <<"1", "0">>),
         TimePart(<<" ">>, <<"1", "8">>, <<"1", "5">>, <<"2", "2">>)}
        \cup OffsetZones)

SpecOffset == InitStamp /\ [][NextOffset]_vars

-----------------------------------------------------------------------------
(* C13: numeric timezone offsets *)

\* a numeric offset has been written after a date, a time or both
OffsetCase == op = "ParseTimestamp" /\ Has("zone") /\ Len(shape) > 1

\* C13: after a sign, two digits are hours, two digits, a colon and two digits
\* are hours and minutes, four digits are hours and minutes; minutes are below
\* 60 and the whole is at most 86400 seconds, signed as written, a larger
\* whole failing with OffsetOutOfRange. Runs of any other number of digits
\* fail with MalformedOffset (and with MalformedNumber where there is no digit
\* at all).
C13_OffsetForms ==
    OffsetCase
    => LET z      == The("zone").val
           run    == z[3]
           colon  == z[4]
           mins   == z[5]
           secs   == z[6] * 3600 + z[7] * 60
           formed == IF colon = 1 THEN run = 2 /\ mins = 2 ELSE run \in {2, 4}
       IN  /\ z[1] = 1
                => /\ ret.err = Nil
                   /\ ret.t.loc = [name |-> <<>>, offset |-> z[2]]
                   /\ z[2] \in (0 - 86400)..86400
                   /\ SecondOfDay(ret.t) = WrittenSecondOfDay
           /\ z[1] = 0 => ret.err # Nil
           /\ (formed /\ z[7] < 60 /\ secs > 86400)
                => ErrKind(ret.err) = "OffsetOutOfRange"
           /\ (run = 0 \/ (run = 2 /\ colon = 1 /\ mins = 0))
                => ErrKind(ret.err) = "MalformedNumber"
           /\ (run \in {1, 3, 5} \/ (run = 2 /\ colon = 1 /\ mins \in {1, 3}))
                => ErrKind(ret.err) = "MalformedOffset"

\* "2009-11-10 18:15:22 -24:00" has been accepted, a day west of UTC
C13_Witness ==
    /\ OffsetCase
    /\ Len(shape) = 3
    /\ The("zone").text = <<"-", "2", "4", ":", "0", "0">>
    /\ ret.err = Nil
    /\ ret.t.loc.offset = 0 - 86400

-----------------------------------------------------------------------------
(* Callers of ParseTimespan: fractions of few and of many digits *)

\* the longest run of fraction digits a caller writes
MaxFracDigits == 11

\* the longest input of a caller that writes long fractions
MaxLongLen == 14

\* the first digit, and the first eight and more digits, of a run that
\* counts up, of one that changes in its ninth place and after, and of one
\* of nines
LongFracs ==
    {SubSeq(run, 1, n) :
        run \in {<<"1", "2", "3", "4", "5", "6", "7", "8", "9", "1", "5", "0">>,
                 <<"0", "0", "0", "0", "0", "0", "0", "0", "1", "9", "9", "9">>,
                 <<"9", "9", "9", "9", "9", "9", "9", "9", "9", "9", "9", "9">>},
        n \in {1} \cup 8..MaxFracDigits}

\* one fraction, after the integer 1 or no integer, with no unit, a unit
\* below the second, the second, or a unit above it
LongGroups ==
    {[sep |-> 0, int |-> i, fracs |-> <<f>>, gap |-> 0, unit |-> u] :
        i \in {<<>>, <<"1">>}, f \in LongFracs,
        u \in {<<>>, <<"n", "s">>, <<"u", "s">>, <<"m", "s">>, <<"s">>,
               <<"m">>, <<"y">>}}

NextLong == CallParseTimespan(LongGroups, MaxLongLen)

SpecLong == InitSpan /\ [][NextLong]_vars

-----------------------------------------------------------------------------
(* C14: a fraction is nine digits *)

\* the first nine digits of a run, with zeros behind a shorter run
NineDigits(ds) ==
    IF Len(ds) >= 9 THEN SubSeq(ds, 1, 9) ELSE ds \o [k \in 1..(9 - Len(ds)) |-> "0"]

\* the groups of the input with every fraction cut after its ninth digit
RECURSIVE CutFracs(_)
CutFracs(gs) ==
    IF gs = <<>> THEN <<>>
    ELSE <<[Head(gs) EXCEPT !.fracs =
                [k \in 1..Len(@) |-> IF Len(@[k]) > 9 THEN SubSeq(@[k], 1, 9) ELSE @[k]]]>>
         \o CutFracs(Tail(gs))

\* a unit of at least a second in seconds, a unit below it as the number of
\* units in a second
Seconds(w) ==
    CASE w \in {<<>>, <<"s">>} -> 1 [] w = <<"m">> -> 60 [] w = <<"y">> -> 31557600
      [] OTHER -> 0

PerSecond(w) ==
    CASE w = <<"n", "s">> -> 1000000000 [] w = <<"u", "s">> -> 1000000
      [] w = <<"m", "s">> -> 1000 [] OTHER -> 0

\* the duration the claim gives a group of integer i, fraction digits ds and
\* unit w
ClaimedGroup(i, ds, w) ==
    LET f == Decimal(NineDigits(ds), 0)
    IN  IF Seconds(w) > 0
        THEN Add64(Mul64(I64(Decimal(i, 0) * Seconds(w)), I64(1000000000)),
                   Mul64(I64(f), I64(Seconds(w))))
        ELSE Add64(I64(Decimal(i, 0) * (1000000000 \div PerSecond(w))),
                   I64(f \div PerSecond(w)))

\* C14: the digits of a fraction after the ninth change nothing, a shorter
\* fraction counts as if zeros followed it, and the fraction f of nine digits
\* adds f x (unit/second) nanoseconds for a unit of at least a second and the
\* whole part of f / (second/unit) for a unit below it.
C14_NineDigitFraction ==
    op = "ParseTimespan"
    => /\ ret = ParseTimespan(RenderAll(CutFracs(shape)))
       /\ Len(shape) = 1
            => /\ ret.err = Nil
               /\ ret.d = ClaimedGroup(shape[1].int, shape[1].fracs[1], shape[1].unit)

\* "1.1234567891s" has been parsed as 1.123456789 s, and so has "1.123456789s"
C14_Witness ==
    /\ op = "ParseTimespan"
    /\ input = <<"1", ".", "1", "2", "3", "4", "5", "6", "7", "8", "9", "1", "s">>
    /\ ret = [d |-> I64(1123456789), err |-> Nil]
    /\ ParseTimespan(<<"1", ".", "1", "2", "3", "4", "5", "6", "7", "8", "9", "s">>) = ret

-----------------------------------------------------------------------------
(* Callers of ParseTimestamp: seconds since the epoch *)

\* '@' and what the caller writes for the seconds: digits, nothing, a signed
\* number or letters; val is <<1 for digits, the number they spell>>
UnixNumbers ==
    {Part("unix", <<>>, <<"@">> \o n,
          <<IF n # <<>> /\ \A k \in 1..Len(n) : IsDigit(n[k]) THEN 1 ELSE 0,
            IF n # <<>> /\ \A k \in 1..Len(n) : IsDigit(n[k]) THEN Decimal(n, 0) ELSE 0>>) :
        n \in {<<>>, <<"0">>, <<"7">>, <<"1", "3", "9", "5", "7", "1", "6", "3", "9", "6">>,
               <<"-", "5">>, <<"+", "5">>, <<"a", "b", "c">>}}

\* a decimal point and the digits behind it, or none; val is <<1 for digits>>
UnixFractions ==
    {Part("fraction", <<>>, <<".">> \o f, <<IF f # <<>> THEN 1 ELSE 0>>) :
        f \in {<<>>, <<"5">>, <<"1", "1", "1", "1", "1">>, <<"0", "0", "0", "0", "0", "0", "0", "0", "1">>,
               <<"9", "9", "9", "9", "9", "9", "9", "9", "9", "9">>}}

\* text in front of the timestamp
TextBefore == {Part("before", <<>>, t, <<0>>) : t \in {<<" ">>, <<"x">>, <<"+">>}}

\* text behind the timestamp
UnixTrails ==
    {Part("trail", <<>>, t, <<0>>) :
        t \in {<<" ">>, <<"a", "b", "c">>, <<" ", "@", "5", "6", "7", "8">>,
               <<" ", "U", "T", "C">>, <<"Z">>, <<" ", "a", "g", "o">>}}

NextUnix == CallParseTimestamp(TextBefore \cup UnixNumbers \cup UnixFractions \cup UnixTrails)

SpecUnix == InitStamp /\ [][NextUnix]_vars

-----------------------------------------------------------------------------
(* C15: '@' and seconds since the epoch *)

\* the caller wrote '@' and a number of seconds, a fraction of digits if any,
\* and nothing else
UnixWellFormed ==
    /\ shape[1].kind = "unix" /\ shape[1].val[1] = 1
    /\ \A k \in 2..Len(shape) : shape[k].kind = "fraction" /\ shape[k].val[1] = 1

\* C15: '@', digits n and possibly a point and digits f give the instant n
\* seconds and the nine-digit fraction f after the epoch, whatever the
\* reference instant is; with text after the number, a '.' without digits, no
\* number, or a sign, the call fails.
C15_UnixSeconds ==
    (op = "ParseTimestamp" /\ Has("unix"))
    => IF UnixWellFormed
       THEN /\ ret.err = Nil
            /\ ret.t.sec = I64(shape[1].val[2])
            /\ ret.t.nsec = IF Has("fraction")
                            THEN Decimal(NineDigits(Tail(The("fraction").text)), 0)
                            ELSE 0
            /\ \A r \in Refs : ParseTimestamp(input, r) = ret
       ELSE ret.err # Nil

\* "@1395716396.11111" has been parsed with the reference instant in Tokyo
C15_Witness ==
    /\ op = "ParseTimestamp"
    /\ ref.loc = Tokyo
    /\ input = <<"@", "1", "3", "9", "5", "7", "1", "6", "3", "9", "6", ".",
                 "1", "1", "1", "1", "1">>
    /\ ret.err = Nil
    /\ ret.t.sec = I64(1395716396)
    /\ ret.t.nsec = 111110000

-----------------------------------------------------------------------------
(* Callers of ParseTimestamp: today, yesterday, tomorrow *)

\* the three words and two other spellings of case; val is <<days from
\* today, 1 for a word in lower case>>
DayWords ==
    {Part("word", <<>>, <<"t", "o", "d", "a", "y">>, <<0, 1>>),
     Part("word", <<>>, <<"y", "e", "s", "t", "e", "r", "d", "a", "y">>, <<0 - 1, 1>>),
     Part("word", <<>>, <<"t", "o", "m", "o", "r", "r", "o", "w">>, <<1, 1>>),
     Part("word", <<>>, <<"T", "o", "d", "a", "y">>, <<0, 0>>),
     Part("word", <<>>, <<"T", "O", "M", "O", "R", "R", "O", "W">>, <<1, 0>>)}

\* the zones of the civil timestamps, UTC written without a space, and two
\* zones west of UTC, in one of which the reference instant is a day earlier
DayZones ==
    CivilZones
    \cup {ZonePart(<<>>, <<"U", "T", "C">>, 1, 0),
          ZonePart(<<" ">>, <<"E", "S", "T">>, 1, 0 - 18000),
          ZonePart(<<" ">>, <<"-", "2", "3", ":", "3", "0">>, 1, 0 - 84600)}

\* a second word, a letter, a time, or a second zone behind the timestamp
DayTrails ==
    {TrailPart(<<"t", "o", "m", "o", "r", "r", "o", "w">>, 0), TrailPart(<<"x">>, 0),
     TrailPart(<<"1", "8", ":", "1", "5">>, 2), TrailPart(<<"E", "S", "T">>, 0)}

NextDay == CallParseTimestamp(DayWords \cup DayZones \cup DayTrails)

SpecDay == InitStamp /\ [][NextDay]_vars

-----------------------------------------------------------------------------
(* C16: the day words *)

\* the caller wrote one of the three words, and a known zone if any
DayCase ==
    /\ op = "ParseTimestamp"
    /\ shape[1].kind = "word" /\ shape[1].val[2] = 1
    /\ Has("zone") => The("zone").val[1] = 1

\* the offset of the zone written, or of the location of the reference instant
DayOffset == IF Has("zone") THEN The("zone").val[2] ELSE ref.loc.offset

\* 00:00:00 of the day k days from the one the reference instant falls on in
\* the zone of offset off, in seconds since the epoch
Midnight(k, off) ==
    Sub64(Mul64(Add64(FloorQuo64(Add64(ref.sec, S64(off)), 86400), S64(k)), I64(86400)),
          S64(off))

\* the word, with or without a zone, gives midnight in the zone, or in the
\* location of the reference instant: today is at or before the reference
\* instant and less than 24 hours before it, yesterday and tomorrow are 24
\* hours from today; a spelling in another case fails
DayWordResolved ==
    /\ (DayCase /\ ~Has("trail"))
        => /\ ret.err = Nil
           /\ ret.t.sec = Midnight(shape[1].val[1], DayOffset)
           /\ ret.t.nsec = 0
           /\ ret.t.loc.offset = DayOffset
           /\ ~Has("zone") => ret.t.loc = ref.loc
           /\ shape[1].val[1] = 0
                => /\ ~Less64(ref.sec, ret.t.sec)
                   /\ Less64(ref.sec, Add64(ret.t.sec, I64(86400)))
    /\ (op = "ParseTimestamp" /\ shape[1].kind = "word" /\ shape[1].val[2] = 0)
        => ret.err # Nil

\* C16 as claimed: the day words give midnight as above, and any further
\* input after the word and its optional timezone fails with TrailingInput.
C16_TrailingAfterDayWord ==
    /\ DayWordResolved
    /\ (DayCase /\ Has("trail")) => ErrKind(ret.err) = "TrailingInput"

\* C16 as amended: the day words give midnight as above; further input after
\* the timezone (other than the letter Z) fails with TrailingInput, and
\* further input after the word alone is read as its timezone: a second day
\* word, a letter or a time there fails with UnknownTimezone.
C16_DayWords ==
    /\ DayWordResolved
    /\ (DayCase /\ Has("trail"))
        => IF Has("zone")
           THEN The("zone").text # <<"Z">> => ErrKind(ret.err) = "TrailingInput"
           ELSE The("trail").text = <<"E", "S", "T">>
                \/ ErrKind(ret.err) = "UnknownTimezone"

\* "today Asia/Tokyo" has been resolved to the midnight that began the next
\* day of the reference instant in UTC
C16_Witness ==
    /\ op = "ParseTimestamp"
    /\ ref.loc = UTC
    /\ input = <<"t", "o", "d", "a", "y", " ", "A", "s", "i", "a", "/", "T", "o", "k", "y", "o">>
    /\ ret.err = Nil
    /\ ret.t.sec = I64(1257865200)
    /\ ret.t.loc = Tokyo

-----------------------------------------------------------------------------
(* Callers of ParseTimestamp: now *)

\* the word and two other spellings of case; val is <<1 for lower case>>
NowWords ==
    {Part("word", <<>>, <<"n", "o", "w">>, <<1>>),
     Part("word", <<>>, <<"N", "o", "w">>, <<0>>),
     Part("word", <<>>, <<"N", "O", "W">>, <<0>>)}

\* a space, a letter, a suffix of the relative forms, or a time behind it
NowTrails ==
    {Part("trail", <<>>, t, <<0>>) :
        t \in {<<" ">>, <<"x">>, <<" ", "a", "g", "o">>, <<" ", "1", "8", ":", "1", "5">>}}

NextNow == CallParseTimestamp(TextBefore \cup NowWords \cup DayZones \cup NowTrails)

SpecNow == InitStamp /\ [][NextNow]_vars

-----------------------------------------------------------------------------
(* C17: now *)

\* C17: "now" gives the reference instant itself, and only the three letters
\* alone do: with text before or behind them, a timezone too, and in any
\* other case of letter, the call fails.
C17_NowAlone ==
    (op = "ParseTimestamp" /\ Has("word"))
    => IF Len(shape) = 1 /\ shape[1].val[1] = 1
       THEN input = <<"n", "o", "w">> /\ ret = [t |-> ref, err |-> Nil]
       ELSE ret.err # Nil

\* "now" has been given the reference instant in Tokyo, nanoseconds included
C17_Witness ==
    /\ op = "ParseTimestamp"
    /\ input = <<"n", "o", "w">>
    /\ ref.loc = Tokyo
    /\ ret.err = Nil
    /\ ret.t = [sec |-> I64(1257894000), nsec |-> 999999999, loc |-> Tokyo]

-----------------------------------------------------------------------------
(* Callers of ParseTimespan: words of the unit table and other words *)

\* the longest input of a caller that writes words
MaxWordLen == 10

\* words in capitals, a plural in capitals, a word of no unit, and words
\* that begin or extend a spelling of the table
OtherWords ==
    {<<"H">>, <<"S">>, <<"D">>, <<"W">>, <<"M", "o", "n", "t", "h", "s">>,
     <<"Y", "e", "a", "r", "s">>, <<"x", "y", "z">>, <<"m", "i">>, <<"s", "e", "c", "s">>,
     <<"M", "i", "n">>, <<"h", "o", "u">>, <<"n", "s", "e", "c", "s">>}

\* the integer 5, with or without a fraction, and a word or none
WordGroups ==
    [sep : {0}, int : {<<"5">>}, fracs : {<<>>, <<<<"5">>>>}, gap : {0},
     unit : UnitWords \cup OtherWords \cup {<<>>}]

NextWord == CallParseTimespan(WordGroups, MaxWordLen)

SpecWord == InitSpan /\ [][NextWord]_vars

-----------------------------------------------------------------------------
(* C18: words that are no unit *)

\* C18: a word that is not one of the spellings of the unit table, letter for
\* letter, makes the call fail with UnknownUnit: capitals, a beginning of a
\* spelling and a spelling with letters added are no units.
C18_UnknownUnit ==
    (/\ op = "ParseTimespan"
     /\ \E k \in 1..Len(shape) : shape[k].unit \notin UnitWords \cup {<<>>})
    => ErrKind(ret.err) = "UnknownUnit"

\* "5Months" has been rejected for its unit
C18_Witness ==
    /\ op = "ParseTimespan"
    /\ input = <<"5", "M", "o", "n", "t", "h", "s">>
    /\ ret = [d |-> Zero64, err |-> "expected unit, got %q in %q"]

-----------------------------------------------------------------------------
(* C19: the spellings of a unit, and no unit *)

\* the spellings the claim lists for each unit
UnitClasses ==
    {{<<"n", "s">>, <<"n", "s", "e", "c">>},
     {<<"u", "s">>, <<"u", "s", "e", "c">>, <<"xC2", "xB5", "s">>, <<"xCE", "xBC", "s">>},
     {<<"m", "s">>, <<"m", "s", "e", "c">>},
     {<<"s">>, <<"s", "e", "c">>, <<"s", "e", "c", "o", "n", "d">>,
      <<"s", "e", "c", "o", "n", "d", "s">>},
     {<<"m">>, <<"m", "i", "n">>, <<"m", "i", "n", "u", "t", "e">>,
      <<"m", "i", "n", "u", "t", "e", "s">>},
     {<<"h">>, <<"h", "r">>, <<"h", "o", "u", "r">>, <<"h", "o", "u", "r", "s">>},
     {<<"d">>, <<"d", "a", "y">>, <<"d", "a", "y", "s">>},
     {<<"w">>, <<"w", "e", "e", "k">>, <<"w", "e", "e", "k", "s">>},
     {<<"M">>, <<"m", "o", "n", "t", "h">>, <<"m", "o", "n", "t", "h", "s">>},
     {<<"y">>, <<"y", "e", "a", "r">>, <<"y", "e", "a", "r", "s">>}}

\* the shortest spelling of the unit that w spells
Shortest(w) ==
    LET class == CHOOSE c \in UnitClasses : w \in c
    IN  CHOOSE v \in class : \A u \in class : Len(v) <= Len(u)

\* the groups with every unit in its shortest spelling, and with "s" for no
\* unit at the end of the input
RECURSIVE Respelled(_)
Respelled(gs) ==
    IF gs = <<>> THEN <<>>
    ELSE <<[Head(gs) EXCEPT !.unit = IF @ # <<>> THEN Shortest(@)
                                     ELSE IF Len(gs) = 1 THEN <<"s">> ELSE @]>>
         \o Respelled(Tail(gs))

\* the words of all groups are spellings of the table, or missing
SpelledUnits ==
    /\ op = "ParseTimespan"
    /\ \A k \in 1..Len(shape) : shape[k].unit \in UnitWords \cup {<<>>}

\* C19: every spelling of a unit gives what its shortest spelling gives for
\* the same numbers, a group without a word at the end of the input gives
\* what it gives with "s", and a number alone is so many seconds.
C19_SameUnit ==
    SpelledUnits
    => /\ ret = ParseTimespan(RenderAll(Respelled(shape)))
       /\ Len(shape) = 1 => ret.err = Nil
       /\ (Len(shape) = 1 /\ shape[1].unit = <<>>)
            => ret.d = ClaimedGroup(shape[1].int,
                                    IF shape[1].fracs = <<>> THEN <<>> ELSE shape[1].fracs[1],
                                    <<>>)

\* "5.5" has been parsed as "5.5s" is: five and a half seconds
C19_Witness ==
    /\ op = "ParseTimespan"
    /\ input = <<"5", ".", "5">>
    /\ ret.err = Nil
    /\ ret = ParseTimespan(<<"5", ".", "5", "s">>)
    /\ ret.d = Add64(Mul64(I64(5), Second), I64(500000000))

-----------------------------------------------------------------------------
(* Callers of ParseTimespan: zero, spaces and nothing *)

\* groups of 0 or 7 with or without "s", and what is left of a group when the
\* caller leaves its number out: nothing, spaces, or a word alone
BlankGroups ==
    [sep : {0, 1, 2}, int : {<<>>, <<"0">>, <<"7">>}, fracs : {<<>>}, gap : {0, 1},
     unit : {<<>>, <<"s">>}]

NextBlank == CallParseTimespan(BlankGroups, MaxLen)

SpecBlank == InitSpan /\ [][NextBlank]_vars

-----------------------------------------------------------------------------
(* C20: zero and the empty input *)

\* C20: "0" gives the zero duration; the empty string and spaces alone fail
\* with EmptyInput; and whenever the call succeeds the input holds a number,
\* so that at least one group has been read.
C20_ZeroAndEmpty ==
    op = "ParseTimespan"
    => /\ input = <<"0">> => ret = [d |-> Zero64, err |-> Nil]
       /\ (\A k \in 1..Len(input) : input[k] = " ") => ErrKind(ret.err) = "EmptyInput"
       /\ ret.err = Nil => \E k \in 1..Len(input) : IsDigit(input[k])

\* two spaces have been rejected as no time span
C20_Witness ==
    /\ op = "ParseTimespan"
    /\ input = <<" ", " ">>
    /\ ret = [d |-> Zero64, err |-> "expected time span, got %q"]

-----------------------------------------------------------------------------
(* Callers of ParseTimestamp: an hour alone *)

\* a run of digits where the time stands, with no colon; val as for a time
HourPart(h) == Part("time", <<" ">>, h, <<Decimal(h, 0), 0, 0>>)

\* an hour of one, two or six digits, or a time with its colon, alone or after
\* a weekday, a date or both, with or without UTC behind it
NextHour ==
    CallParseTimestamp(
        {WeekdayPart(<<"T", "u", "e">>, 2),
         DatePart(<<"2", "0", "0", "9">>, <<"1", "1">>, <<"1", "0">>),
         TimePart(<<" ">>, <<"2", "3">>, <<"1", "5">>, <<>>),
         ZonePart(<<" ">>, <<"U", "T", "C">>, 1, 0)}
        \cup {HourPart(h) : h \in {<<"0">>, <<"5">>, <<"2", "3">>, <<"0", "0", "7">>,
                                   <<"2", "4">>, <<"1", "2", "3", "4", "5", "6">>}})

SpecHour == InitStamp /\ [][NextHour]_vars

-----------------------------------------------------------------------------
(* C21: a time without a date needs its colon *)

\* the caller wrote digits without a colon where the time stands
HourCase ==
    /\ op = "ParseTimestamp"
    /\ Has("time") /\ \A k \in 1..Len(The("time").text) : The("time").text[k] # ":"

\* C21: digits without a colon and without a date before them, after a
\* weekday or not, fail with AmbiguousTimeFormat and are neither an hour nor
\* a time span; after a date they are the hour, with minute and second 0.
C21_ColonRequired ==
    HourCase
    => IF ~Has("date") THEN ErrKind(ret.err) = "AmbiguousTimeFormat"
       ELSE The("time").val[1] <= 23
            => /\ ret.err = Nil
               /\ SecondOfDay(ret.t) = The("time").val[1] * 3600
               /\ ret.t.nsec = 0

\* "23" has been rejected, though ParseTimespan reads it as 23 seconds
C21_Witness ==
    /\ op = "ParseTimestamp"
    /\ input = <<"2", "3">>
    /\ ret.err = "expected ':' in time-only format, got %q"
    /\ ParseTimespan(input).err = Nil

-----------------------------------------------------------------------------
(* C22: what a civil timestamp leaves out *)

\* the caller wrote a date, a time or both, acceptable in themselves, and
\* possibly a known timezone
DefaultsCase ==
    /\ op = "ParseTimestamp"
    /\ CivilWellFormed /\ ~Has("weekday") /\ ~Has("trail")

\* the days of 2009 before each month
DaysBeforeMonth == <<0, 31, 59, 90, 120, 151, 181, 212, 243, 273, 304, 334>>

\* the day the caller means, in days since 1970-01-01: the day written, which
\* is of 2009 (2009-01-01 being day 14245), or the day of the reference
\* instant in its own location
MeantDay ==
    IF Has("date")
    THEN 14245 + DaysBeforeMonth[The("date").val[3]] + The("date").val[4] - 1
    ELSE ToInt(FloorQuo64(Add64(ref.sec, S64(ref.loc.offset)), 86400))

\* the offset the caller means: of the zone written, or of the location of
\* the reference instant
MeantOffset == IF Has("zone") THEN The("zone").val[2] ELSE ref.loc.offset

\* C22: a date left out is the date of the reference instant in its own
\* location, also before a timezone of another offset; a time left out is
\* 00:00:00, seconds left out are 0, the fraction is 0, and a timezone left
\* out is the location of the reference instant; what is written is kept.
C22_Defaults ==
    DefaultsCase
    => /\ ret.err = Nil
       /\ ret.t.sec = Add64(Mul64(S64(MeantDay), I64(86400)),
                            S64(WrittenSecondOfDay - MeantOffset))
       /\ ret.t.nsec = 0
       /\ ret.t.loc.offset = MeantOffset
       /\ ~Has("zone") => ret.t.loc = ref.loc

\* "18:15 UTC" has been given the date of the reference instant in Tokyo, the
\* 11th, where in UTC it is the 10th
C22_Witness ==
    /\ op = "ParseTimestamp"
    /\ ref.loc = Tokyo
    /\ input = <<"1", "8", ":", "1", "5", " ", "U", "T", "C">>
    /\ ret.err = Nil
    /\ ret.t.sec = I64(1257963300)
    /\ DateOf(ret.t) = [year |-> 2009, month |-> 11, day |-> 11]

-----------------------------------------------------------------------------
(* Callers of both parsers: any text *)

\* the longest text of a caller that writes any characters
MaxAnyLen == 4

\* a digit, the separators of the grammars, a sign, '@', and a letter of a
\* unit and one of a timezone
AnyChars == {"1", "-", ":", ".", " ", "+", "@", "Z", "s"}

InitAny ==
    /\ input = <<>>
    /\ shape = <<>>
    /\ ref = [sec |-> I64(1257894000), nsec |-> 999999999, loc |-> Tokyo]
    /\ op = "none"
    /\ ret = NoCall

\* a caller parses the text it had, extended by one more character, with
\* either parser
CallOnText(chars, bound) ==
    \E c \in chars, f \in {"ParseTimespan", "ParseTimestamp"} :
        /\ Len(input) < bound
        /\ input' = Append(input, c)
        /\ op' = f
        /\ ret' = IF f = "ParseTimespan" THEN ParseTimespan(input')
                  ELSE ParseTimestamp(input', ref)
        /\ UNCHANGED <<shape, ref>>

NextAny == CallOnText(AnyChars, MaxAnyLen)

SpecAny == InitAny /\ [][NextAny]_vars

-----------------------------------------------------------------------------
(* C23: every input is answered *)

\* the kinds of error the specification lists
ListedKinds ==
    {"EmptyInput", "MalformedNumber", "UnknownUnit", "CalendarFieldOutOfRange",
     "MalformedOffset", "OffsetOutOfRange", "UnknownTimezone", "AmbiguousTimeFormat",
     "WeekdayRequiresDate", "WeekdayMismatch", "TrailingInput"}

\* the errors of ParseTimestamp that are of none of these kinds: no timestamp
\* at all, a date or a time of another shape, a short year before 'T'
UnlistedErrors ==
    {"expected timestamp, got empty string", "expected timestamp, got %q",
     "expected date (YYYY-MM-DD or YY-MM-DD), got %q",
     "expected time (HH:MM or HH:MM:SS), got %q",
     "expected 4-digit year before 'T' separator, got 2-digit year in %q"}

\* every position a scanner or sub-parser returns, from any position of the
\* input, is a position of the input or its end
CursorsInRange ==
    \A pos \in 0..Len(input) :
        /\ DigitsEnd(input, pos) \in pos..Len(input)
        /\ SpacesEnd(input, pos) \in pos..Len(input)
        /\ WordEnd(input, pos) \in pos..Len(input)
        /\ NonSpaceEnd(input, pos) \in pos..Len(input)
        /\ readNum(input, pos).pos \in pos..Len(input)
        /\ readFrac(input, pos).pos \in pos..Len(input)
        /\ handleWeekday(input, pos).pos \in pos..Len(input)
        /\ handleDate(input, pos).pos \in pos..Len(input)
        /\ handleTime(input, pos).pos \in pos..Len(input)
        /\ handleTimezone(input, pos).pos \in pos..Len(input)

-----------------------------------------------------------------------------
(* C24: an error comes with the zero value *)

\* C24: when ParseTimespan returns an error its duration is 0, and when
\* ParseTimestamp returns an error its instant is the zero instant, also
\* where the text before the error had been read as a group or a field.
C24_NoPartialResult ==
    /\ (op = "ParseTimespan" /\ ret.err # Nil) => ret.d = Zero64
    /\ (op = "ParseTimestamp" /\ ret.err # Nil) => ret.t = ZeroTime

\* "1:1s" has been rejected for its timezone with the zero instant, after its
\* time had been read, and "1s:" is rejected with the duration 0 after its
\* first group
C24_Witness ==
    /\ op = "ParseTimestamp"
    /\ input = <<"1", ":", "1", "s">>
    /\ ret = [t |-> ZeroTime, err |-> "expected timezone, got %q in %q: %w"]
    /\ handleTime(input, 0).err = Nil
    /\ ParseTimespan(<<"1", "s">>) = [d |-> Second, err |-> Nil]
    /\ ParseTimespan(<<"1", "s", ":">>).d = Zero64
    /\ ParseTimespan(<<"1", "s", ":">>).err # Nil

-----------------------------------------------------------------------------
(* C25: the order in which ParseTimestamp tells the forms apart *)

\* a caller writes a sign or an '@', a word or a number, a date, a time, a
\* zone and a suffix of a relative timestamp, each of them optional
NextOrder ==
    CallParseTimestamp(
        {Part("before", <<>>, <<c>>, <<0>>) : c \in {"+", "-", "@"}}
        \cup {Part("word", <<>>, w, <<0>>) :
                w \in {<<"n", "o", "w">>, <<"t", "o", "d", "a", "y">>, <<"7">>,
                       <<"7", "s">>}}
        \cup {Part("date", <<>>, <<"2", "0", "0", "9", "-", "1", "1", "-", "1", "0">>,
                   <<4, 2009, 11, 10>>),
              Part("time", <<" ">>, <<"0", "5", ":", "3", "0">>, <<5, 30, 0>>),
              ZonePart(<<" ">>, <<"U", "T", "C">>, 1, 0),
              ZonePart(<<>>, <<"+", "0", "5", ":", "3", "0">>, 1, 19800),
              TrailPart(<<"a", "g", "o">>, 0),
              TrailPart(<<"l", "e", "f", "t">>, 0)})

SpecOrder == InitStamp /\ [][NextOrder]_vars

\* the input is written in a relative form: it starts with a sign, or it
\* ends in " ago" or " left"
SignedInput == At(input, 0) \in {"+", "-"}

SuffixedInput ==
    HasSuffix(input, <<" ", "a", "g", "o">>) \/ HasSuffix(input, <<" ", "l", "e", "f", "t">>)

\* the time span of a relative input: what follows the sign, else what
\* precedes the suffix
SpanText ==
    IF SignedInput THEN Slice(input, 1, Len(input))
    ELSE IF HasSuffix(input, <<" ", "a", "g", "o">>) THEN Slice(input, 0, Len(input) - 4)
    ELSE Slice(input, 0, Len(input) - 5)

\* the span of a relative input is subtracted
SpanBack ==
    IF SignedInput THEN At(input, 0) = "-" ELSE HasSuffix(input, <<" ", "a", "g", "o">>)

\* C25: ParseTimestamp tells the forms apart in a fixed order.  "now" alone
\* is the reference instant; else an input that starts with '@' has the
\* answer of the epoch parser for the rest, whatever it ends in; else an
\* input that starts with '+' or '-' has the answer of ParseTimespan for the
\* rest (its error, or the reference instant moved by its duration),
\* whatever it ends in; else an input that ends in " ago" or " left" has the
\* answer of ParseTimespan for what precedes the suffix; else an input that
\* starts with a day word has the answer of the token parser; and every
\* other input has the answer of the civil grammar.
C25_FixedOrder ==
    op = "ParseTimestamp"
    => IF input = <<"n", "o", "w">> THEN ret = [t |-> ref, err |-> Nil]
       ELSE IF At(input, 0) = "@"
       THEN IF Len(input) = 1 THEN ret.err # Nil
            ELSE ret = handleUnix(Slice(input, 1, Len(input)))
       ELSE IF SignedInput \/ SuffixedInput
       THEN LET X == ParseTimespan(SpanText)
            IN  IF X.err # Nil THEN ret = Fail(X.err)
                ELSE /\ ret.err = Nil
                     /\ Shifted(ret.t, ref, IF SpanBack THEN Neg64(X.d) ELSE X.d)
       ELSE LET tok == handleToken(input, ref)
            IN  IF tok.matched THEN ret = [t |-> tok.t, err |-> tok.err]
                ELSE ret = ParseCivil(input, ref)

\* "+7 ago" has been refused for the unit "ago" of the span "7 ago", and not
\* for the sign of a span "+7"
C25_Witness ==
    /\ op = "ParseTimestamp"
    /\ input = <<"+", "7", " ", "a", "g", "o">>
    /\ ret.err = ParseTimespan(<<"7", " ", "a", "g", "o">>).err
    /\ ret.err # Nil
    /\ ret.err # ParseTimespan(<<"+", "7">>).err

-----------------------------------------------------------------------------
(* C26: the look-ahead that tells a date from a time *)

\* the longest text a caller writes after the optional weekday, in bytes
MaxWindowLen == 7

\* the callers start from nothing or from a weekday and a space, which shape
\* remembers
InitWindow ==
    /\ shape \in {<<>>, <<"M", "o", "n", " ">>}
    /\ input = shape
    /\ ref = [sec |-> I64(1257894000), nsec |-> 999999999, loc |-> Tokyo]
    /\ op = "none"
    /\ ret = NoStamp

\* a caller parses the text it had, extended by a digit, a '-', a ':' or a
\* space
NextWindow ==
    \E c \in {"1", "-", ":", " "} :
        /\ Len(input) < Len(shape) + MaxWindowLen
        /\ input' = Append(input, c)
        /\ op' = "ParseTimestamp"
        /\ ret' = ParseTimestamp(input', ref)
        /\ UNCHANGED <<shape, ref>>

SpecWindow == InitWindow /\ [][NextWindow]_vars

\* where the date or the time starts: after the weekday and its spaces
WindowStart == IF shape = <<>> THEN 0 ELSE SpacesEnd(input, Len(shape))

\* the five characters from there on, or as many as there are
Window ==
    Slice(input, WindowStart,
          IF WindowStart + 5 < Len(input) THEN WindowStart + 5 ELSE Len(input))

\* mark is the first of '-' and ':' in the window
FirstInWindow(mark) ==
    \E k \in 1..Len(Window) :
        /\ Window[k] = mark
        /\ \A j \in 1..(k - 1) : Window[j] \notin {"-", ":"}

\* C26: when the text after the optional weekday and spaces starts with a
\* digit, its first five characters decide.  If a '-' comes first among them,
\* a date is parsed there: its error is the error of the call, and a result
\* lies on its day.  If a ':' comes first, a time is parsed there: its error
\* is the error of the call, and a result lies on the day of the reference
\* instant at that time of day.  If neither occurs, as after five or more
\* digits, the call fails for want of a ':'.  After a date, a digit starts
\* the time, whose error is the error of the call.
C26_LookAheadWindow ==
    (op = "ParseTimestamp" /\ WindowStart < Len(input) /\ IsDigit(At(input, WindowStart))
     /\ (shape = <<>> \/ Len(input) > Len(shape)))
    => IF FirstInWindow("-")
       THEN LET dt == handleDate(input, WindowStart)
                i1 == SpacesEnd(input, dt.pos)
            IN  IF dt.err # Nil THEN ret = Fail(dt.err)
                ELSE IF i1 < Len(input) /\ IsDigit(At(input, i1))
                        /\ handleTime(input, i1).err # Nil
                THEN ret = Fail(handleTime(input, i1).err)
                ELSE ret.err = Nil
                     => DateOf(ret.t) = DateOf(Date(dt.year, dt.month, dt.day,
                                                    0, 0, 0, 0, UTC))
       ELSE IF FirstInWindow(":")
       THEN LET tm == handleTime(input, WindowStart)
            IN  IF tm.err # Nil THEN ret = Fail(tm.err)
                ELSE ret.err = Nil
                     => /\ DateOf(ret.t) = DateOf(ref)
                        /\ SecondOfDay(ret.t)
                           = tm.hour * 3600 + tm.minute * 60 + tm.second
       ELSE ret = Fail("expected ':' in time-only format, got %q")

\* "11111-1" has been refused for want of a ':': the '-' after five digits
\* was not seen
C26_Witness ==
    /\ op = "ParseTimestamp"
    /\ input = <<"1", "1", "1", "1", "1", "-", "1">>
    /\ ~FirstInWindow("-")
    /\ ret = Fail("expected ':' in time-only format, got %q")

-----------------------------------------------------------------------------
(* C27: where a sub-parser leaves the cursor *)

\* r is what a sub-parser returned that was given the position pos: with an
\* error the position it was given, else a later one within the input
Framed(r, pos) ==
    IF r.err # Nil THEN r.pos = pos
    ELSE r.pos > pos /\ r.pos <= Len(input)

\* C27: started at any position of the input, handleWeekday returns that
\* position and "not found" unless the word there is a weekday name, and
\* readNum, readFrac, handleDate, handleTime and handleTimezone return that
\* position with their error; each of the six returns a later position, at
\* most the length of the input, when it succeeds.
C27_CursorFrame ==
    op = "ParseTimestamp"
    => \A pos \in 0..Len(input) :
        /\ LET w == handleWeekday(input, pos)
               word == ToLower(readWord(input, pos).word)
           IN  IF word # <<>> /\ \E k \in 1..7 : word \in WeekdayNames[k]
               THEN w.found /\ w.pos > pos /\ w.pos <= Len(input)
               ELSE ~w.found /\ w.pos = pos
        /\ Framed(readNum(input, pos), pos)
        /\ Framed(readFrac(input, pos), pos)
        /\ Framed(handleDate(input, pos), pos)
        /\ Framed(handleTime(input, pos), pos)
        /\ Framed(handleTimezone(input, pos), pos)

\* in "Tues 2009-13-10" the word "Tues" is no weekday and the date has no
\* such month: both sub-parsers have left the cursor where it was, the date
\* parser with its error, and the number of the year has been read up to
\* its '-'
C27_Witness ==
    /\ op = "ParseTimestamp"
    /\ input = <<"T", "u", "e", "s", " ", "2", "0", "0", "9", "-", "1", "3", "-", "1", "0">>
    /\ handleWeekday(input, 0) = [wd |-> 0, pos |-> 0, found |-> FALSE]
    /\ handleDate(input, 5).pos = 5
    /\ handleDate(input, 5).err = "expected month in range 1-12, got %d in %q"
    /\ readNum(input, 5).pos = 9
    /\ readNum(input, 5).err = Nil

-----------------------------------------------------------------------------
(* C28: the sign of a time span *)

\* C28: a duration that ParseTimespan returns without an error is not
\* negative as a signed 64-bit count of nanoseconds.
C28_NeverNegative ==
    (op = "ParseTimespan" /\ ret.err = Nil) => ~IsNeg64(ret.d)

-----------------------------------------------------------------------------
(* C29: the group loop of ParseTimespan, one iteration at a time *)

\* the longest input of a call that is followed through its loop, in bytes
MaxLoopLen == 4

\* One iteration of the loop, entered with i < len(s): it returns an error,
\* breaks after the last spaces, or goes on to the next iteration with the
\* cursor behind the group it has read.
SpanIteration(s, i, d, foundAny) ==
    LET i1 == SpacesEnd(s, i)
        err(e) == [kind |-> "error", i |-> i1, d |-> d, foundAny |-> foundAny, err |-> e]
    IN  IF i1 >= Len(s)
        THEN [kind |-> "break", i |-> i1, d |-> d, foundAny |-> foundAny, err |-> Nil]
        ELSE
        LET c  == At(s, i1)
            rn == IF IsDigit(c) THEN readNum(s, i1)
                  ELSE [n |-> Zero64, pos |-> i1, err |-> Nil]
        IN  IF rn.err # Nil THEN err(rn.err)
            ELSE IF ~IsDigit(c) /\ c # "." THEN err("expected number, got %q in %q")
            ELSE
            LET rf == IF rn.pos < Len(s) /\ At(s, rn.pos) = "."
                      THEN readFrac(s, rn.pos + 1)
                      ELSE [n |-> 0, pos |-> rn.pos, err |-> Nil]
            IN  IF rf.err # Nil THEN err(rf.err)
                ELSE
                LET w    == readWord(s, SpacesEnd(s, rf.pos))
                    unit == IF w.word = <<>> THEN Second ELSE UnitOf(w.word)
                IN  IF unit = <<>> THEN err("expected unit, got %q in %q")
                    ELSE [kind |-> "next", i |-> w.pos,
                          d |-> Accumulate(d, rn.n, rf.n, unit), foundAny |-> TRUE,
                          err |-> Nil]

\* a call of ParseTimespan with a text of digits, points, spaces and a unit
\* letter; shape holds the locals of the call and the number of iterations
\* it has entered
InitLoop ==
    /\ input \in UNION {[1..k -> {"1", "0", ".", " ", "s"}] : k \in 0..MaxLoopLen}
    /\ shape = [i |-> 0, d |-> Zero64, foundAny |-> FALSE, n |-> 0]
    /\ ref = NoRef
    /\ op = "called"
    /\ ret = NoCall

\* the switch before the loop
LoopEnter ==
    /\ op = "called"
    /\ IF input = <<>>
       THEN /\ op' = "returned"
            /\ ret' = [d |-> Zero64, err |-> "expected time span, got empty string"]
       ELSE IF input = <<"0">>
       THEN /\ op' = "returned"
            /\ ret' = [d |-> Zero64, err |-> Nil]
       ELSE /\ op' = "loop"
            /\ ret' = ret
    /\ UNCHANGED <<input, shape, ref>>

\* an iteration that neither returns nor breaks, although it has read
\* nothing new
LoopIterateAgain ==
    /\ op = "loop"
    /\ shape.i < Len(input)
    /\ shape.n <= MaxLoopLen + 2
    /\ shape' = [shape EXCEPT !.n = shape.n + 1]
    /\ UNCHANGED <<input, ref, op, ret>>

\* the loop condition holds and the body runs once
LoopIterate ==
    /\ op = "loop"
    /\ shape.i < Len(input)
    /\ LET it == SpanIteration(input, shape.i, shape.d, shape.foundAny)
       IN  /\ shape' = [i |-> it.i, d |-> it.d, foundAny |-> it.foundAny,
                        n |-> shape.n + 1]
           /\ op' = CASE it.kind = "error" -> "returned"
                      [] it.kind = "break" -> "done"
                      [] it.kind = "next"  -> "loop"
           /\ ret' = IF it.kind = "error" THEN [d |-> Zero64, err |-> it.err] ELSE ret
    /\ UNCHANGED <<input, ref>>

\* the loop has ended, by its condition or by the break: the return
LoopExit ==
    /\ \/ op = "done"
       \/ op = "loop" /\ ~(shape.i < Len(input))
    /\ op' = "returned"
    /\ ret' = IF shape.foundAny THEN [d |-> shape.d, err |-> Nil]
              ELSE [d |-> Zero64, err |-> "expected time span, got %q"]
    /\ UNCHANGED <<input, shape, ref>>

NextLoop == LoopEnter \/ LoopIterate \/ LoopExit

SpecLoop == InitLoop /\ [][NextLoop]_vars

\* the call is never held up: it goes on to its next step.  The last
\* conjunct is the weak fairness of LoopIterate with its enabling condition
\* written out: every iteration enters one more into shape.n.
SpecLoopFair ==
    /\ SpecLoop
    /\ WF_vars(LoopEnter)
    /\ WF_vars(LoopExit)
    /\ ([]<>~(op = "loop" /\ shape.i < Len(input)) \/ []<><<LoopIterate>>_vars)

\* an iteration that goes on to another one has moved the cursor on
LoopAdvances ==
    (op = "loop" /\ op' = "loop" /\ shape'.n > shape.n) => shape'.i > shape.i

\* C29: every call of ParseTimespan returns.  While it runs the loop has
\* been entered at most as often as the cursor has moved on, and never more
\* often than the input has characters; every iteration that does not
\* return or break moves the cursor on; and the call returns what
\* ParseTimespan is defined to return.
C29_Terminates ==
    /\ [](/\ shape.n <= Len(input)
          /\ shape.i <= Len(input)
          /\ op \in {"loop", "done"} => shape.n <= shape.i
          /\ op = "returned" => ret = ParseTimespan(input))
    /\ [][LoopAdvances]_vars
    /\ <>(op = "returned")

\* "1 1s" has been read in two iterations, and 2 s has been returned
C29_Witness ==
    /\ op = "returned"
    /\ input = <<"1", " ", "1", "s">>
    /\ shape.n = 2
    /\ shape.i = 4
    /\ ret = [d |-> Mul64(I64(2), Second), err |-> Nil]

-----------------------------------------------------------------------------
(* C30: two callers at once *)

\* Two goroutines each make one call, and their steps interleave.  input,
\* shape, op and ret hold one value per caller; shape holds the locals of
\* the call: the function called, the time span s that its loop reads,
\* whether the span is subtracted, the cursor, the duration so far, and the
\* reference instant as the call received it.  ref is the instant that both
\* callers pass.
Callers == {1, 2}

Idle ==
    [f |-> "none", s |-> <<>>, negate |-> FALSE, i |-> 0, d |-> Zero64,
     foundAny |-> FALSE, now |-> ZeroTime]

InitCallers ==
    /\ input = <<<<>>, <<>>>>
    /\ shape = <<Idle, Idle>>
    /\ ref \in Refs
    /\ op = <<"idle", "idle">>
    /\ ret = <<NoCall, NoCall>>

\* the texts the callers pass to either function
CallerTexts(f) ==
    IF f = "ParseTimespan"
    THEN {<<"1", "s">>, <<"1", " ", "1", "s">>, <<"1", "s", " ">>, <<"0">>, <<"s">>}
    ELSE {<<"n", "o", "w">>, <<"@", "1">>, <<"+">>, <<"+", "0">>, <<"-", "1", "s">>,
          <<"1", " ", "1", "s", " ", "a", "g", "o">>, <<"1", ":", "1">>}

\* one accumulator for the calls of all callers
AccShared(p) == shape[1].d

\* var d time.Duration: the accumulator of the call of caller p
Acc(p) == shape[p].d

\* a step of the call of caller p: the call itself, the code before the
\* loop, one iteration of the loop, or the return after it.  A call of
\* ParseTimestamp in a relative form runs the loop of ParseTimespan on its
\* time span and moves its reference instant by the result; in any other
\* form it returns in one step.
CallerStep(p) ==
    LET my == shape[p]
        Return(r) ==
            /\ op' = [op EXCEPT ![p] = "returned"]
            /\ ret' = [ret EXCEPT ![p] = r]
        Answer(r, negate) ==
            IF my.f = "ParseTimespan" THEN r
            ELSE IF r.err # Nil THEN Fail(r.err)
            ELSE [t |-> TimeAdd(my.now, IF negate THEN Neg64(r.d) ELSE r.d),
                  err |-> Nil]
    IN  \/ /\ op[p] = "idle"
           /\ \E f \in {"ParseTimespan", "ParseTimestamp"} :
                \E text \in CallerTexts(f) :
                    /\ input' = [input EXCEPT ![p] = text]
                    /\ shape' = [shape EXCEPT ![p] = [Idle EXCEPT !.f = f, !.now = ref]]
           /\ op' = [op EXCEPT ![p] = "called"]
           /\ UNCHANGED <<ref, ret>>
        \/ /\ op[p] = "called"
           /\ LET form == IF my.f = "ParseTimestamp" THEN RelativeForm(input[p])
                          ELSE [found |-> TRUE, text |-> input[p], negate |-> FALSE]
              IN  IF my.f = "ParseTimestamp"
                     /\ (input[p] = <<"n", "o", "w">> \/ At(input[p], 0) = "@"
                         \/ ~form.found)
                  THEN /\ Return(ParseTimestamp(input[p], my.now))
                       /\ UNCHANGED shape
                  ELSE /\ shape' = [shape EXCEPT ![p] = [my EXCEPT !.s = form.text,
                                                                  !.negate = form.negate]]
                       /\ IF form.text = <<>>
                          THEN Return(Answer([d |-> Zero64,
                                              err |-> "expected time span, got empty string"],
                                             form.negate))
                          ELSE IF form.text = <<"0">>
                          THEN Return(Answer([d |-> Zero64, err |-> Nil], form.negate))
                          ELSE /\ op' = [op EXCEPT ![p] = "loop"]
                               /\ UNCHANGED ret
           /\ UNCHANGED <<input, ref>>
        \/ /\ op[p] = "loop"
           /\ my.i < Len(my.s)
           /\ LET it == SpanIteration(my.s, my.i, Acc(p), my.foundAny)
              IN  /\ shape' = [shape EXCEPT ![p] = [my EXCEPT !.i = it.i, !.d = it.d,
                                                             !.foundAny = it.foundAny]]
                  /\ IF it.kind = "error"
                     THEN Return(Answer([d |-> Zero64, err |-> it.err], my.negate))
                     ELSE /\ op' = [op EXCEPT ![p] = IF it.kind = "break" THEN "done"
                                                     ELSE "loop"]
                          /\ UNCHANGED ret
           /\ UNCHANGED <<input, ref>>
        \/ /\ \/ op[p] = "done"
              \/ op[p] = "loop" /\ ~(my.i < Len(my.s))
           /\ Return(Answer(IF my.foundAny THEN [d |-> Acc(p), err |-> Nil]
                            ELSE [d |-> Zero64, err |-> "expected time span, got %q"],
                            my.negate))
           /\ UNCHANGED <<input, shape, ref>>

NextCallers == \E p \in Callers : CallerStep(p)

SpecCallers == InitCallers /\ [][NextCallers]_vars

\* what the call of caller p returns when it runs alone
Alone(p) ==
    IF shape[p].f = "ParseTimespan" THEN ParseTimespan(input[p])
    ELSE ParseTimestamp(input[p], ref)

\* a step changes neither the reference instant nor the input of a call
\* that has begun
ArgumentsKept ==
    /\ ref' = ref
    /\ \A p \in Callers : op[p] # "idle" => input'[p] = input[p]

\* C30: however the steps of two calls interleave, each call returns what it
\* returns when it runs alone, which for ParseTimespan depends on its input
\* only and for ParseTimestamp on its input and the reference instant; and
\* no step of a call changes an input or the reference instant.
C30_CallsIndependent ==
    /\ [](\A p \in Callers : op[p] = "returned" => ret[p] = Alone(p))
    /\ [][ArgumentsKept]_vars

\* caller 2 has called ParseTimestamp("1 1s ago") and returned the instant
\* 2 s before the reference instant, while the call ParseTimespan("1 1s") of
\* caller 1 stands between its two iterations with 1 s accumulated
C30_Witness ==
    /\ op = <<"loop", "returned">>
    /\ input = <<<<"1", " ", "1", "s">>, <<"1", " ", "1", "s", " ", "a", "g", "o">>>>
    /\ shape[1].i = 2
    /\ shape[1].d = Second
    /\ ret[2].err = Nil
    /\ ret[2].t.sec = Sub64(ref.sec, I64(2))
    /\ ret[2].t.nsec = ref.nsec

====
